---- MODULE Spec2Model ----
(***************************************************************************)
(* Financial-text extraction engine of espimonitor (app/dane_finansowe.py) *)
(*                                                                         *)
(* Text is modelled at character level: a string is a sequence of          *)
(* one-character strings.  Letters outside ASCII are written by name       *)
(* ("z_dot" for the Polish z with a dot above, "l_stroke", ...).           *)
(*                                                                         *)
(* A Python float is modelled as an exact decimal [n |-> n, e |-> e] with  *)
(* value n / 10^e, kept normalised (e is minimal); e = -1 encodes          *)
(* float('inf').  Arithmetic is exact, binary rounding error is not        *)
(* modelled.                                                               *)
(***************************************************************************)
EXTENDS Integers, Sequences, FiniteSets, TLC

VARIABLES
    token, forma, wynik, cn_pc,        \* one application of clean_number
    para, zmiana, rr_pc,               \* one application of oblicz_zmiane_rr
    text, i, dane, pc,                 \* invocations of ekstraktuj_dane_finansowe
    dane_finansowe, wskazniki, wsk_pc, \* one application of ekstraktuj_wskazniki_finansowe
    full_text, raport, pob_pc,         \* one call of pobierz_raport_finansowy_espi
    widok,                             \* one application of wyswietl_dane_finansowe
    tresc, przyciete, trim_pc,         \* one trimming of report content at closing markers
    previous_entries, strona, returned,
    notified, polls, mon_pc            \* ESPIMonitor.run

vars == <<token, forma, wynik, cn_pc, para, zmiana, rr_pc,
          text, i, dane, pc, dane_finansowe, wskazniki, wsk_pc,
          full_text, raport, pob_pc, widok, tresc, przyciete, trim_pc,
          previous_entries, strona, returned, notified, polls, mon_pc>>

cn_vars == <<token, forma, wynik, cn_pc>>
rr_vars == <<para, zmiana, rr_pc>>
scan_vars == <<text, i, dane, pc>>
wsk_vars == <<dane_finansowe, wskazniki, wsk_pc>>
pob_vars == <<full_text, raport, pob_pc>>
trim_vars == <<tresc, przyciete, trim_pc>>
mon_vars == <<previous_entries, strona, returned, notified, polls, mon_pc>>

(***************************************************************************)
(* Bounds                                                                  *)
(***************************************************************************)
MaxTok == 4

MaxGroups == 2

(***************************************************************************)
(* Characters and decimals                                                 *)
(***************************************************************************)
Digits == <<"0", "1", "2", "3", "4", "5", "6", "7", "8", "9">>

IsDigit(c) == \E k \in 1..10 : Digits[k] = c

DigitVal(c) == (CHOOSE k \in 1..10 : Digits[k] = c) - 1

IsSpace(c) == c \in {" ", "\t"}

RECURSIVE Pow10(_)
Pow10(k) == IF k <= 0 THEN 1 ELSE 10 * Pow10(k - 1)

Abs(x) == IF x < 0 THEN -x ELSE x

RECURSIVE Norm(_, _)
Norm(n, e) ==
    IF e > 0 /\ n % 10 = 0 THEN Norm(n \div 10, e - 1) ELSE [n |-> n, e |-> e]

Zero == [n |-> 0, e |-> 0]

Inf == [n |-> 1, e |-> -1]

IntNum(k) == [n |-> k, e |-> 0]

RECURSIVE IntOf(_)
IntOf(ds) ==
    IF ds = <<>> THEN 0
    ELSE 10 * IntOf(SubSeq(ds, 1, Len(ds) - 1)) + DigitVal(ds[Len(ds)])

Contains(s, c) == \E k \in 1..Len(s) : s[k] = c

(***************************************************************************)
(* str.strip, str.startswith / endswith, str.replace                       *)
(***************************************************************************)
RECURSIVE LStrip(_)
LStrip(s) == IF s # <<>> /\ IsSpace(Head(s)) THEN LStrip(Tail(s)) ELSE s

RECURSIVE RStrip(_)
RStrip(s) ==
    IF s # <<>> /\ IsSpace(s[Len(s)]) THEN RStrip(SubSeq(s, 1, Len(s) - 1)) ELSE s

strip(s) == RStrip(LStrip(s))

startswith(s, c) == s # <<>> /\ s[1] = c

endswith(s, c) == s # <<>> /\ s[Len(s)] = c

replace(s, a, b) == [k \in 1..Len(s) |-> IF s[k] = a THEN b ELSE s[k]]

(***************************************************************************)
(* clean_number                                                            *)
(***************************************************************************)
IsNumChar(c) == IsDigit(c) \/ IsSpace(c) \/ c \in {",", ".", "-"}

RECURSIVE TakeRun(_)
TakeRun(s) ==
    IF s # <<>> /\ IsNumChar(Head(s)) THEN <<Head(s)>> \o TakeRun(Tail(s)) ELSE <<>>

RECURSIVE DropNonRun(_)
DropNonRun(s) ==
    IF s # <<>> /\ ~IsNumChar(Head(s)) THEN DropNonRun(Tail(s)) ELSE s

\* re.findall(r'[\d\s,.-]+', cleaned): the list is empty iff no character of
\* the class occurs; parts[0] is the first maximal run.
findall_empty(s) == DropNonRun(s) = <<>>

IsNumCharNoSpace(c) == IsDigit(c) \/ c \in {",", ".", "-"}

RECURSIVE TakeRunNoSpace(_)
TakeRunNoSpace(s) ==
    IF s # <<>> /\ IsNumCharNoSpace(Head(s))
    THEN <<Head(s)>> \o TakeRunNoSpace(Tail(s)) ELSE <<>>

RECURSIVE DropNonRunNoSpace(_)
DropNonRunNoSpace(s) ==
    IF s # <<>> /\ ~IsNumCharNoSpace(Head(s)) THEN DropNonRunNoSpace(Tail(s)) ELSE s

\* variant of parts0 whose character class lacks \s
parts0_no_space(s) == TakeRunNoSpace(DropNonRunNoSpace(s))

\* variant of parts0 that returns the longest maximal run (the first of
\* the longest ones)
parts_najdluzsza(s) ==
    LET runs == {ab \in (1..Len(s)) \X (1..Len(s)) :
                    /\ ab[1] <= ab[2]
                    /\ \A k \in ab[1]..ab[2] : IsNumChar(s[k])
                    /\ ab[1] = 1 \/ ~IsNumChar(s[ab[1] - 1])
                    /\ ab[2] = Len(s) \/ ~IsNumChar(s[ab[2] + 1])}
        best == CHOOSE ab \in runs :
                    \A cd \in runs :
                        \/ ab[2] - ab[1] > cd[2] - cd[1]
                        \/ ab[2] - ab[1] = cd[2] - cd[1] /\ ab[1] <= cd[1]
    IN  IF runs = {} THEN <<>> ELSE SubSeq(s, best[1], best[2])

parts0(s) == TakeRun(DropNonRun(s))

RECURSIVE SkipSpaces(_)
SkipSpaces(s) == IF s # <<>> /\ IsSpace(Head(s)) THEN SkipSpaces(Tail(s)) ELSE s

\* re.sub(r'(\d)\s+(\d)', r'\1\2', s): leftmost non-overlapping matches; the
\* second digit of a match is consumed and cannot open the next match.
RECURSIVE sub_digit_space(_)
sub_digit_space(s) ==
    IF s = <<>> THEN <<>>
    ELSE LET rest == Tail(s)
             after == SkipSpaces(rest)
         IN  IF /\ IsDigit(Head(s))
                /\ rest # <<>> /\ IsSpace(Head(rest))
                /\ after # <<>> /\ IsDigit(Head(after))
             THEN <<Head(s), Head(after)>> \o sub_digit_space(Tail(after))
             ELSE <<Head(s)>> \o sub_digit_space(rest)

\* re.sub(r'[^\d\.\-]', '', s)
KeepDigitDotMinus(c) == IsDigit(c) \/ c \in {".", "-"}

sub_other(s) == SelectSeq(s, KeepDigitDotMinus)

\* float(s) for a string of digits, periods and minus signs: an optional
\* leading sign, then digits with at most one period and at least one digit.
float(s) ==
    LET neg == startswith(s, "-")
        body == IF neg THEN Tail(s) ELSE s
        digs == SelectSeq(body, IsDigit)
        dots == {k \in 1..Len(body) : body[k] = "."}
        ok == /\ \A k \in 1..Len(body) : IsDigit(body[k]) \/ body[k] = "."
              /\ Cardinality(dots) <= 1
              /\ digs # <<>>
        e == IF dots = {} THEN 0 ELSE Len(body) - (CHOOSE k \in dots : TRUE)
        n == IntOf(digs)
    IN  IF ok THEN [exc |-> "none", val |-> Norm(IF neg THEN -n ELSE n, e)]
        ELSE [exc |-> "ValueError", val |-> Zero]

\* variant of the try/except around float(): the ValueError escapes
try_float_uncaught(s) == float(s)

\* try: return float(cleaned) / except ValueError: return 0.0
try_float(s) ==
    IF float(s).exc = "ValueError" THEN [exc |-> "none", val |-> Zero] ELSE float(s)

clean_number(num_str) ==
    IF num_str = <<>> \/ num_str = <<"-">> \/ strip(num_str) = <<>>
    THEN [exc |-> "none", val |-> Zero]
    ELSE LET c0 == strip(num_str)
             c1 == IF startswith(c0, "(") /\ endswith(c0, ")")
                   THEN <<"-">> \o SubSeq(c0, 2, Len(c0) - 1)
                   ELSE c0
             c2 == sub_digit_space(parts0(c1))
             c3 == IF findall_empty(c1) THEN c1
                   ELSE IF Contains(c2, ",") /\ ~Contains(c2, ".")
                        THEN replace(c2, ",", ".")
                        ELSE c2
             c4 == sub_other(c3)
         IN  IF c4 = <<>> \/ c4 = <<"-">> \/ c4 = <<"+">>
             THEN [exc |-> "none", val |-> Zero]
             ELSE try_float(c4)

(***************************************************************************)
(* oblicz_zmiane_rr                                                        *)
(***************************************************************************)
MaxOf(a, b) == IF a >= b THEN a ELSE b

\* x.n scaled to E decimal places (E >= x.e)
Scaled(x, E) == x.n * Pow10(E - x.e)

Sub(a, b) ==
    LET E == MaxOf(a.e, b.e) IN Norm(Scaled(a, E) - Scaled(b, E), E)

\* N / D (D > 0) rounded to the nearest integer, ties to the even one
RoundHalfEven(N, D) ==
    LET q == N \div D
        r == N - q * D
    IN  IF 2 * r < D THEN q
        ELSE IF 2 * r > D THEN q + 1
        ELSE IF q % 2 = 0 THEN q ELSE q + 1

\* round(N / D * 100) for D > 0, computed on the integer and fractional
\* parts of N / D separately
RoundHundredths(N, D) == (N \div D) * 100 + RoundHalfEven((N % D) * 100, D)

\* round(x, 2)
round2(x) == IF x.e <= 2 THEN x ELSE Norm(RoundHalfEven(x.n, Pow10(x.e - 2)), 2)

\* (zmiana_bezwzgledna / abs(poprzedni)) * 100 as the fraction num / den, den > 0
procent(obecny, poprzedni) ==
    LET zb == Sub(obecny, poprzedni)
        E == MaxOf(zb.e, poprzedni.e)
    IN  [num |-> Scaled(zb, E) * 100, den |-> Abs(Scaled(poprzedni, E))]

\* variant of the trend thresholds: >= 5 / <= -5
trend_inclusive(obecny, poprzedni) ==
    LET f == procent(obecny, poprzedni)
    IN  IF f.num >= 5 * f.den THEN "wzrost"
        ELSE IF f.num <= -5 * f.den THEN "spadek"
        ELSE "stabilny"

trend(obecny, poprzedni) ==
    LET f == procent(obecny, poprzedni)
    IN  IF f.num > 5 * f.den THEN "wzrost"
        ELSE IF f.num < -5 * f.den THEN "spadek"
        ELSE "stabilny"

\* variant without the zero-prior branch
zero_branch_missing(obecny, poprzedni) == FALSE

zero_branch(obecny, poprzedni) == poprzedni.n = 0

oblicz_zmiane_rr(obecny, poprzedni) ==
    IF zero_branch(obecny, poprzedni)
    THEN IF obecny.n = 0
         THEN [exc |-> "none", zmiana_bezwzgledna |-> Zero,
               zmiana_procentowa |-> Zero, trend |-> "bez_zmian"]
         ELSE [exc |-> "none", zmiana_bezwzgledna |-> obecny,
               zmiana_procentowa |-> Inf, trend |-> "nowy"]
    ELSE IF poprzedni.n = 0
    THEN [exc |-> "ZeroDivisionError", zmiana_bezwzgledna |-> Zero,
          zmiana_procentowa |-> Zero, trend |-> "none"]
    ELSE LET f == procent(obecny, poprzedni)
         IN  [exc |-> "none",
              zmiana_bezwzgledna |-> round2(Sub(obecny, poprzedni)),
              zmiana_procentowa |-> Norm(RoundHundredths(f.num, f.den), 2),
              trend |-> trend(obecny, poprzedni)]

(***************************************************************************)
(* Inputs of the pure functions                                            *)
(***************************************************************************)
TokenAlphabet == {"1", "0", " ", ",", ".", "-", "(", ")", "x"}

RECURSIVE SeqsUpTo(_, _)
SeqsUpTo(S, k) ==
    IF k = 0 THEN {<<>>}
    ELSE LET shorter == SeqsUpTo(S, k - 1)
         IN  shorter \cup {Append(s, c) : s \in {t \in shorter : Len(t) = k - 1}, c \in S}

FreeTokens == SeqsUpTo(TokenAlphabet, MaxTok)

DigitGroups == {<<"1">>, <<"0">>, <<"9", "2">>, <<"0", "7">>}

Separators == {<<" ">>, <<" ", " ">>, <<"\t">>}

Fractions == {<<"5">>, <<"0", "5">>, <<"0">>}

NoFraction == <<>>

GroupSeqs == SeqsUpTo(DigitGroups, MaxGroups) \ {<<>>}

ExampleForms ==
    { [grupy |-> <<<<"9", "2", "1">>, <<"7", "0", "3">>>>, odstep |-> <<" ">>,
       ulamek |-> NoFraction, nawias |-> FALSE],
      [grupy |-> <<<<"1">>, <<"0", "0", "0">>, <<"0", "0", "0">>>>, odstep |-> <<" ">>,
       ulamek |-> NoFraction, nawias |-> FALSE],
      [grupy |-> <<<<"1">>, <<"2", "3", "4">>>>, odstep |-> <<" ">>,
       ulamek |-> <<"5">>, nawias |-> TRUE] }

\* digit groups separated by whitespace; with a comma fraction in parentheses
Forms ==
    { [grupy |-> g, odstep |-> sep, ulamek |-> NoFraction, nawias |-> FALSE] :
          g \in GroupSeqs, sep \in Separators }
    \cup
    { [grupy |-> g, odstep |-> sep, ulamek |-> u, nawias |-> TRUE] :
          g \in GroupSeqs, sep \in Separators, u \in Fractions }
    \cup ExampleForms

NoForm == [grupy |-> <<>>, odstep |-> <<>>, ulamek |-> NoFraction, nawias |-> FALSE]

RECURSIVE Join(_, _)
Join(gs, sep) ==
    IF gs = <<>> THEN <<>>
    ELSE IF Len(gs) = 1 THEN gs[1]
    ELSE gs[1] \o sep \o Join(Tail(gs), sep)

RECURSIVE Concat(_)
Concat(gs) == IF gs = <<>> THEN <<>> ELSE Head(gs) \o Concat(Tail(gs))

FormToken(f) ==
    LET core == Join(f.grupy, f.odstep)
                \o (IF f.ulamek = NoFraction THEN <<>> ELSE <<",">> \o f.ulamek)
    IN  IF f.nawias THEN <<"(">> \o core \o <<")">> ELSE core

NoResult == [exc |-> "pending", val |-> Zero]

CnIdle == token = <<>> /\ forma = NoForm /\ wynik = NoResult /\ cn_pc = "idle"

MaxVal == 6

BoundaryValues ==
    { IntNum(100), IntNum(105), IntNum(106), IntNum(95), IntNum(94),
      [n |-> 105004, e |-> 3], [n |-> 105006, e |-> 3],
      [n |-> 94996, e |-> 3], [n |-> 94994, e |-> 3],
      IntNum(15), IntNum(12), [n |-> 5, e |-> 1], [n |-> -25, e |-> 1] }

CompareValues == {IntNum(k) : k \in (-MaxVal)..MaxVal} \cup BoundaryValues

NoChange == [exc |-> "pending", zmiana_bezwzgledna |-> Zero,
             zmiana_procentowa |-> Zero, trend |-> "none"]

NoPair == [obecny |-> Zero, poprzedni |-> Zero]

RrIdle == para = NoPair /\ zmiana = NoChange /\ rr_pc = "idle"

(***************************************************************************)
(* SpecClean: clean_number applied to one token                            *)
(***************************************************************************)
CleanNumber ==
    /\ cn_pc = "start"
    /\ wynik' = clean_number(token)
    /\ cn_pc' = "done"
    /\ UNCHANGED <<token, forma>>

(***************************************************************************)
(* SpecCompare: oblicz_zmiane_rr applied to one pair                       *)
(***************************************************************************)
ObliczZmianeRR ==
    /\ rr_pc = "start"
    /\ zmiana' = oblicz_zmiane_rr(para.obecny, para.poprzedni)
    /\ rr_pc' = "done"
    /\ UNCHANGED para

(***************************************************************************)
(* str.lower and the substring test                                        *)
(***************************************************************************)
UpperChars ==
    <<"A", "B", "C", "D", "E", "F", "G", "H", "I", "J", "K", "L", "M", "N", "O",
      "P", "Q", "R", "S", "T", "U", "V", "W", "X", "Y", "Z", "A_ogonek",
      "C_acute", "E_ogonek", "L_stroke", "N_acute", "O_acute", "S_acute",
      "Z_acute", "Z_dot">>

LowerChars ==
    <<"a", "b", "c", "d", "e", "f", "g", "h", "i", "j", "k", "l", "m", "n", "o",
      "p", "q", "r", "s", "t", "u", "v", "w", "x", "y", "z", "a_ogonek",
      "c_acute", "e_ogonek", "l_stroke", "n_acute", "o_acute", "s_acute",
      "z_acute", "z_dot">>

lower_char(c) ==
    IF \E k \in 1..Len(UpperChars) : UpperChars[k] = c
    THEN LowerChars[CHOOSE k \in 1..Len(UpperChars) : UpperChars[k] = c]
    ELSE c

lower(s) == [k \in 1..Len(s) |-> lower_char(s[k])]

\* h in s
IsSubstring(h, s) ==
    \E k \in 0..(Len(s) - Len(h)) : SubSeq(s, k + 1, k + Len(h)) = h

(***************************************************************************)
(* Vocabulary (financial_items_map, in insertion order) and noise tokens   *)
(***************************************************************************)
financial_items_map ==
    <<
      [item |->
          <<"P", "r", "z", "y", "c", "h", "o", "d", "y", " ", "z", "e", " ",
            "s", "p", "r", "z", "e", "d", "a", "z_dot", "y">>,
       key |-> "przychody_sprzedazy"],
      [item |->
          <<"P", "r", "z", "y", "c", "h", "o", "d", "y", " ", "z", " ", "d",
            "z", "i", "a", "l_stroke", "a", "l", "n", "o", "s_acute", "c",
            "i", " ", "o", "p", "e", "r", "a", "c", "y", "j", "n", "e", "j">>,
       key |-> "przychody_operacyjne"],
      [item |->
          <<"K", "o", "s", "z", "t", "y", " ", "d", "z", "i", "a",
            "l_stroke", "a", "l", "n", "o", "s_acute", "c", "i", " ", "o",
            "p", "e", "r", "a", "c", "y", "j", "n", "e", "j">>,
       key |-> "koszty_operacyjne"],
      [item |->
          <<"Z", "y", "s", "k", " ", "n", "a", " ", "d", "z", "i", "a",
            "l_stroke", "a", "l", "n", "o", "s_acute", "c", "i", " ", "o",
            "p", "e", "r", "a", "c", "y", "j", "n", "e", "j">>,
       key |-> "zysk_operacyjny"],
      [item |->
          <<"Z", "y", "s", "k", " ", "(", "s", "t", "r", "a", "t", "a", ")",
            " ", "n", "a", " ", "d", "z", "i", "a", "l_stroke", "a", "l",
            "n", "o", "s_acute", "c", "i", " ", "o", "p", "e", "r", "a", "c",
            "y", "j", "n", "e", "j">>,
       key |-> "zysk_operacyjny"],
      [item |->
          <<"Z", "y", "s", "k", " ", "b", "r", "u", "t", "t", "o">>,
       key |-> "zysk_brutto"],
      [item |->
          <<"Z", "y", "s", "k", " ", "(", "s", "t", "r", "a", "t", "a", ")",
            " ", "p", "r", "z", "e", "d", " ", "o", "p", "o", "d", "a", "t",
            "k", "o", "w", "a", "n", "i", "e", "m">>,
       key |-> "zysk_przed_opodatkowaniem"],
      [item |->
          <<"Z", "y", "s", "k", " ", "n", "e", "t", "t", "o">>,
       key |-> "zysk_netto"],
      [item |->
          <<"Z", "y", "s", "k", " ", "(", "s", "t", "r", "a", "t", "a", ")",
            " ", "n", "e", "t", "t", "o">>,
       key |-> "zysk_netto"],
      [item |->
          <<"Z", "y", "s", "k", " ", "(", "s", "t", "r", "a", "t", "a", ")",
            " ", "n", "e", "t", "t", "o", " ", "p", "r", "z", "y", "p", "a",
            "d", "a", "j", "a_ogonek", "c", "y", " ", "a", "k", "c", "j",
            "o", "n", "a", "r", "i", "u", "s", "z", "o", "m", " ", "j", "e",
            "d", "n", "o", "s", "t", "k", "i", " ", "d", "o", "m", "i", "n",
            "u", "j", "a_ogonek", "c", "e", "j">>,
       key |-> "zysk_netto_akcjonariusze"],
      [item |->
          <<"Z", "y", "s", "k", " ", "n", "e", "t", "t", "o", " ", "n", "a",
            " ", "a", "k", "c", "j", "e_ogonek", " ", "z", "w", "y", "k",
            "l_stroke", "a_ogonek">>,
       key |-> "zysk_na_akcje"],
      [item |->
          <<"Z", "y", "s", "k", " ", "(", "s", "t", "r", "a", "t", "a", ")",
            " ", "n", "e", "t", "t", "o", " ", "n", "a", " ", "j", "e", "d",
            "n", "a_ogonek", " ", "a", "k", "c", "j", "e_ogonek", " ", "z",
            "w", "y", "k", "l_stroke", "a_ogonek">>,
       key |-> "zysk_na_akcje"],
      [item |->
          <<"Z", "y", "s", "k", " ", "(", "s", "t", "r", "a", "t", "a", ")",
            " ", "n", "e", "t", "t", "o", " ", "n", "a", " ", "j", "e", "d",
            "n", "a_ogonek", " ", "s_acute", "r", "e", "d", "n", "i", "o",
            "w", "a", "z_dot", "o", "n", "a_ogonek", " ", "a", "k", "c", "j",
            "e_ogonek", " ", "z", "w", "y", "k", "l_stroke", "a_ogonek">>,
       key |-> "zysk_na_akcje_sredniowazona"],
      [item |->
          <<"P", "r", "z", "e", "p", "l_stroke", "y", "w", "y", " ", "p",
            "i", "e", "n", "i", "e_ogonek", "z_dot", "n", "e", " ", "n", "e",
            "t", "t", "o", " ", "z", " ", "d", "z", "i", "a", "l_stroke",
            "a", "l", "n", "o", "s_acute", "c", "i", " ", "o", "p", "e", "r",
            "a", "c", "y", "j", "n", "e", "j">>,
       key |-> "przeplyw_operacyjny"],
      [item |->
          <<"S_acute", "r", "o", "d", "k", "i", " ", "p", "i", "e", "n", "i",
            "e_ogonek", "z_dot", "n", "e", " ", "n", "e", "t", "t", "o", " ",
            "z", " ", "d", "z", "i", "a", "l_stroke", "a", "l", "n", "o",
            "s_acute", "c", "i", " ", "o", "p", "e", "r", "a", "c", "y", "j",
            "n", "e", "j">>,
       key |-> "przeplyw_operacyjny"],
      [item |->
          <<"P", "r", "z", "e", "p", "l_stroke", "y", "w", "y", " ", "p",
            "i", "e", "n", "i", "e_ogonek", "z_dot", "n", "e", " ", "n", "e",
            "t", "t", "o", " ", "z", " ", "d", "z", "i", "a", "l_stroke",
            "a", "l", "n", "o", "s_acute", "c", "i", " ", "i", "n", "w", "e",
            "s", "t", "y", "c", "y", "j", "n", "e", "j">>,
       key |-> "przeplyw_inwestycyjny"],
      [item |->
          <<"S_acute", "r", "o", "d", "k", "i", " ", "p", "i", "e", "n", "i",
            "e_ogonek", "z_dot", "n", "e", " ", "n", "e", "t", "t", "o", " ",
            "z", " ", "d", "z", "i", "a", "l_stroke", "a", "l", "n", "o",
            "s_acute", "c", "i", " ", "i", "n", "w", "e", "s", "t", "y", "c",
            "y", "j", "n", "e", "j">>,
       key |-> "przeplyw_inwestycyjny"],
      [item |->
          <<"P", "r", "z", "e", "p", "l_stroke", "y", "w", "y", " ", "p",
            "i", "e", "n", "i", "e_ogonek", "z_dot", "n", "e", " ", "n", "e",
            "t", "t", "o", " ", "z", " ", "d", "z", "i", "a", "l_stroke",
            "a", "l", "n", "o", "s_acute", "c", "i", " ", "f", "i", "n", "a",
            "n", "s", "o", "w", "e", "j">>,
       key |-> "przeplyw_finansowy"],
      [item |->
          <<"S_acute", "r", "o", "d", "k", "i", " ", "p", "i", "e", "n", "i",
            "e_ogonek", "z_dot", "n", "e", " ", "n", "e", "t", "t", "o", " ",
            "w", "y", "k", "o", "r", "z", "y", "s", "t", "a", "n", "e", " ",
            "w", " ", "d", "z", "i", "a", "l_stroke", "a", "l", "n", "o",
            "s_acute", "c", "i", " ", "f", "i", "n", "a", "n", "s", "o", "w",
            "e", "j">>,
       key |-> "przeplyw_finansowy"],
      [item |->
          <<"A", "k", "t", "y", "w", "a", " ", "r", "a", "z", "e", "m">>,
       key |-> "aktywa_razem"],
      [item |->
          <<"S", "u", "m", "a", " ", "b", "i", "l", "a", "n", "s", "o", "w",
            "a">>,
       key |-> "aktywa_razem"],
      [item |->
          <<"A", "k", "t", "y", "w", "a", " ", "t", "r", "w", "a",
            "l_stroke", "e">>,
       key |-> "aktywa_trwale"],
      [item |->
          <<"A", "k", "t", "y", "w", "a", " ", "o", "b", "r", "o", "t", "o",
            "w", "e">>,
       key |-> "aktywa_obrotowe"],
      [item |->
          <<"Z", "o", "b", "o", "w", "i", "a_ogonek", "z", "a", "n", "i",
            "a", " ", "r", "a", "z", "e", "m">>,
       key |-> "zobowiazania_razem"],
      [item |->
          <<"Z", "o", "b", "o", "w", "i", "a_ogonek", "z", "a", "n", "i",
            "a", " ", "d", "l_stroke", "u", "g", "o", "t", "e", "r", "m",
            "i", "n", "o", "w", "e">>,
       key |-> "zobowiazania_dlugoterminowe"],
      [item |->
          <<"Z", "o", "b", "o", "w", "i", "a_ogonek", "z", "a", "n", "i",
            "a", " ", "k", "r", "o_acute", "t", "k", "o", "t", "e", "r", "m",
            "i", "n", "o", "w", "e">>,
       key |-> "zobowiazania_krotkoterminowe"],
      [item |->
          <<"W", " ", "t", "y", "m", ":", " ", "z", "o", "b", "o", "w", "i",
            "a_ogonek", "z", "a", "n", "i", "a", " ", "k", "r", "o_acute",
            "t", "k", "o", "t", "e", "r", "m", "i", "n", "o", "w", "e">>,
       key |-> "zobowiazania_krotkoterminowe"],
      [item |->
          <<"K", "a", "p", "i", "t", "a", "l_stroke", " ", "w", "l_stroke",
            "a", "s", "n", "y">>,
       key |-> "kapital_wlasny"],
      [item |->
          <<"K", "a", "p", "i", "t", "a", "l_stroke", " ", "p", "o", "d",
            "s", "t", "a", "w", "o", "w", "y">>,
       key |-> "kapital_podstawowy"],
      [item |->
          <<"W", "y", "e", "m", "i", "t", "o", "w", "a", "n", "y", " ", "k",
            "a", "p", "i", "t", "a", "l_stroke", " ", "a", "k", "c", "y",
            "j", "n", "y">>,
       key |-> "wyemitowany_kapital"],
      [item |->
          <<"L", "i", "c", "z", "b", "a", " ", "a", "k", "c", "j", "i", " ",
            "w", " ", "s", "z", "t", "u", "k", "a", "c", "h">>,
       key |-> "liczba_akcji"],
      [item |->
          <<"L", "i", "c", "z", "b", "a", " ", "a", "k", "c", "j", "i", " ",
            "(", "s", "z", "t", ".", ")">>,
       key |-> "liczba_akcji"],
      [item |->
          <<"S_acute", "r", "e", "d", "n", "i", "o", "w", "a", "z_dot", "o",
            "n", "a", " ", "l", "i", "c", "z", "b", "a", " ", "a", "k", "c",
            "j", "i", " ", "(", "w", " ", "s", "z", "t", ".", ")">>,
       key |-> "sredniowazona_liczba_akcji"],
      [item |->
          <<"W", "a", "r", "t", "o", "s_acute", "c_acute", " ", "k", "s",
            "i", "e_ogonek", "g", "o", "w", "a", " ", "n", "a", " ", "a",
            "k", "c", "j", "e_ogonek">>,
       key |-> "wartosc_ksiegowa_na_akcje"],
      [item |->
          <<"W", "a", "r", "t", "o", "s_acute", "c_acute", " ", "k", "s",
            "i", "e_ogonek", "g", "o", "w", "a", " ", "n", "a", " ", "j",
            "e", "d", "n", "a_ogonek", " ", "a", "k", "c", "j", "e_ogonek",
            " ", "z", "w", "y", "k", "l_stroke", "a_ogonek">>,
       key |-> "wartosc_ksiegowa_na_akcje"]
    >>

headers ==
    <<
      <<"p", "l", "n">>,
      <<"e", "u", "r">>,
      <<"t", "y", "s">>,
      <<"p", "o_acute", "l_stroke", "r", "o", "c", "z", "e">>,
      <<"o", "k", "r", "e", "s">>,
      <<"w", " ", "t", "y", "m", ":">>,
      <<"d", "a", "n", "e">>
    >>

Keys == {financial_items_map[k].key : k \in 1..Len(financial_items_map)}

Labels == {financial_items_map[k].item : k \in 1..Len(financial_items_map)}

(***************************************************************************)
(* ekstraktuj_dane_finansowe                                               *)
(***************************************************************************)
MinOf(a, b) == IF a <= b THEN a ELSE b

EmptyDict == <<>>

\* d[k] = v
Put(d, k, v) == [x \in (DOMAIN d) \cup {k} |-> IF x = k THEN v ELSE d[x]]

EmptyDane ==
    [obecny_okres |-> EmptyDict, poprzedni_okres |-> EmptyDict,
     analiza_rr |-> EmptyDict, debug_info |-> <<>>]

\* variant in which the dictionary outlives the call
stale_dane(old) == old

\* dane = {...} at the top of the function: a fresh dictionary per call
fresh_dane(old) == EmptyDane

\* variant of the label test: the label occurs inside the line
matches_substring(line, item) == IsSubstring(item, line)

\* if line == item
matches(line, item) == line = item

\* for item, key in financial_items_map.items(): ... break
\* index of the first matching entry, 0 when there is none
lookup(line) ==
    LET hits == {k \in 1..Len(financial_items_map) :
                     matches(line, financial_items_map[k].item)}
    IN  IF hits = {} THEN 0 ELSE CHOOSE k \in hits : \A m \in hits : k <= m

\* next_line in financial_items_map
in_map(next_line) == next_line \in Labels

\* variant of the header test that compares case-sensitively
is_header_wielkosc(next_line) ==
    \E h \in 1..Len(headers) : IsSubstring(headers[h], next_line)

\* any(header in next_line.lower() for header in [...])
is_header(next_line) ==
    \E h \in 1..Len(headers) : IsSubstring(headers[h], lower(next_line))

ZeroTokens == {<<"0">>, <<"-">>, <<"(", "0", ")">>}

\* variant of the acceptance test without the placeholder tokens
accepted_niezerowe(next_line, cleaned_value) == cleaned_value.n # 0

\* cleaned_value != 0.0 or next_line.strip() in ['0', '-', '(0)']
accepted(next_line, cleaned_value) ==
    cleaned_value.n # 0 \/ strip(next_line) \in ZeroTokens

DebugEntry(typ, line, key, wartosci, procent_, trend_) ==
    [typ |-> typ, line |-> line, key |-> key, wartosci |-> wartosci,
     zmiana_procentowa |-> procent_, trend |-> trend_]

\* variant that stores the last two accepted values
pick_last_two(values) == <<values[Len(values) - 1], values[Len(values)]>>

\* obecny_okres = values[0]; poprzedni_okres = values[1]
pick(values) == <<values[1], values[2]>>

\* variant that leaves the prior-period mapping unwritten
zapisz_bez_poprzedniego(d, matched_key, obecny, poprzedni, a, exc) ==
    [d EXCEPT !.obecny_okres = Put(@, matched_key, obecny),
              !.analiza_rr = IF exc = "none" THEN Put(@, matched_key, a) ELSE @]

\* variant that keeps the values a key already has
zapisz_raz(d, matched_key, obecny, poprzedni, a, exc) ==
    IF matched_key \in DOMAIN d.obecny_okres THEN d
    ELSE [d EXCEPT !.obecny_okres = Put(@, matched_key, obecny),
                   !.poprzedni_okres = Put(@, matched_key, poprzedni),
                   !.analiza_rr = IF exc = "none" THEN Put(@, matched_key, a) ELSE @]

\* variant that keeps the comparison a key already has
zapisz_stara_analiza(d, matched_key, obecny, poprzedni, a, exc) ==
    [d EXCEPT !.obecny_okres = Put(@, matched_key, obecny),
              !.poprzedni_okres = Put(@, matched_key, poprzedni),
              !.analiza_rr = IF exc = "none" /\ matched_key \notin DOMAIN @
                             THEN Put(@, matched_key, a) ELSE @]

\* dane['obecny_okres'][matched_key] = obecny_okres
\* dane['poprzedni_okres'][matched_key] = poprzedni_okres
\* dane['analiza_rr'][matched_key] = oblicz_zmiane_rr(...)
\* (the third write is not reached when oblicz_zmiane_rr raises exc)
zapisz(d, matched_key, obecny, poprzedni, a, exc) ==
    [d EXCEPT !.obecny_okres = Put(@, matched_key, obecny),
              !.poprzedni_okres = Put(@, matched_key, poprzedni),
              !.analiza_rr = IF exc = "none" THEN Put(@, matched_key, a) ELSE @]

\* variant in which a blank line does not use up the window
RECURSIVE lookahead_niepuste(_, _, _, _)
lookahead_niepuste(lines, j, stop, acc) ==
    IF j >= stop THEN acc
    ELSE LET next_line == strip(lines[j + 1])
         IN  IF next_line = <<>>
             THEN lookahead_niepuste(lines, j + 1, MinOf(stop + 1, Len(lines)), acc)
             ELSE IF is_header(next_line) THEN lookahead_niepuste(lines, j + 1, stop, acc)
             ELSE IF in_map(next_line) THEN acc
             ELSE LET r == clean_number(next_line)
                      acc2 == IF accepted(next_line, r.val)
                              THEN [values |-> Append(acc.values, r.val),
                                    debug |-> Append(acc.debug,
                                        DebugEntry("Znaleziona wartosc", next_line,
                                                   "", <<r.val>>, Zero, "")),
                                    exc |-> "none"]
                              ELSE acc
                  IN  IF r.exc # "none" THEN [acc EXCEPT !.exc = r.exc]
                      ELSE IF Len(acc2.values) >= 4 THEN acc2
                      ELSE lookahead_niepuste(lines, j + 1, stop, acc2)

\* for j in range(i + 1, min(i + 5, len(lines))): ...
\* j is the 0-based Python index; acc carries values, the debug entries
\* appended so far and an escaping exception
RECURSIVE lookahead(_, _, _, _)
lookahead(lines, j, stop, acc) ==
    IF j >= stop THEN acc
    ELSE LET next_line == strip(lines[j + 1])
         IN  IF next_line = <<>> THEN lookahead(lines, j + 1, stop, acc)
             ELSE IF is_header(next_line) THEN lookahead(lines, j + 1, stop, acc)
             ELSE IF in_map(next_line) THEN acc
             ELSE LET r == clean_number(next_line)
                      acc2 == IF accepted(next_line, r.val)
                              THEN [values |-> Append(acc.values, r.val),
                                    debug |-> Append(acc.debug,
                                        DebugEntry("Znaleziona wartosc", next_line,
                                                   "", <<r.val>>, Zero, "")),
                                    exc |-> "none"]
                              ELSE acc
                  IN  IF r.exc # "none" THEN [acc EXCEPT !.exc = r.exc]
                      ELSE IF Len(acc2.values) >= 4 THEN acc2
                      ELSE lookahead(lines, j + 1, stop, acc2)

\* variant that writes the saved entry of a key only once
zapisz_okresy_cicho(d, dbg1, matched_key, obecny, poprzedni, rr) ==
    LET a == [zmiana_bezwzgledna |-> rr.zmiana_bezwzgledna,
              zmiana_procentowa |-> rr.zmiana_procentowa,
              trend |-> rr.trend]
        d2 == zapisz(d, matched_key, obecny, poprzedni, a, rr.exc)
    IN  IF rr.exc # "none" \/ matched_key \in DOMAIN d.obecny_okres
        THEN [dane |-> [d2 EXCEPT !.debug_info = dbg1], exc |-> rr.exc]
        ELSE [dane |-> [d2 EXCEPT !.debug_info = Append(dbg1,
                            DebugEntry("ZAPISANO", <<>>, matched_key,
                                       <<obecny, poprzedni>>,
                                       a.zmiana_procentowa, a.trend))],
              exc |-> "none"]

\* if len(values) >= 2: ... for the values obecny, poprzedni and the
\* comparison rr = oblicz_zmiane_rr(obecny, poprzedni)
zapisz_okresy(d, dbg1, matched_key, obecny, poprzedni, rr) ==
    LET a == [zmiana_bezwzgledna |-> rr.zmiana_bezwzgledna,
              zmiana_procentowa |-> rr.zmiana_procentowa,
              trend |-> rr.trend]
        d2 == zapisz(d, matched_key, obecny, poprzedni, a, rr.exc)
    IN  IF rr.exc # "none"
        THEN [dane |-> [d2 EXCEPT !.debug_info = dbg1], exc |-> rr.exc]
        ELSE [dane |-> [d2 EXCEPT !.debug_info = Append(dbg1,
                            DebugEntry("ZAPISANO", <<>>, matched_key,
                                       <<obecny, poprzedni>>,
                                       a.zmiana_procentowa, a.trend))],
              exc |-> "none"]

\* variant of the else branch that keeps a single found value as the
\* current-period value
pomin_czesciowo(d, dbg1, matched_key, values) ==
    [dane |-> [d EXCEPT !.obecny_okres =
                            IF values = <<>> THEN @ ELSE Put(@, matched_key, values[1]),
                        !.debug_info =
                            Append(dbg1,
                                   DebugEntry("POMINIETO", <<>>, matched_key,
                                              <<IntNum(Len(values))>>, Zero, ""))],
     exc |-> "none"]

\* else: dane['debug_info'].append(f"POMINIETO {matched_key}: ... {len(values)} ...")
pomin(d, dbg1, matched_key, values) ==
    [dane |-> [d EXCEPT !.debug_info =
                            Append(dbg1,
                                   DebugEntry("POMINIETO", <<>>, matched_key,
                                              <<IntNum(Len(values))>>, Zero, ""))],
     exc |-> "none"]

\* variant that writes the value entries before the found entry
po_lookahead_odwrotnie(d, line, matched_key, la) ==
    LET dbg1 == (d.debug_info \o la.debug)
                \o <<DebugEntry("Znaleziono pozycje", line, matched_key,
                                 <<>>, Zero, "")>>
    IN  IF la.exc # "none"
        THEN [dane |-> [d EXCEPT !.debug_info = dbg1], exc |-> la.exc]
        ELSE IF Len(la.values) >= 2
        THEN zapisz_okresy(d, dbg1, matched_key,
                           pick(la.values)[1], pick(la.values)[2],
                           oblicz_zmiane_rr(pick(la.values)[1], pick(la.values)[2]))
        ELSE pomin(d, dbg1, matched_key, la.values)

\* the body of `if line == item:` once the look-ahead has returned la
po_lookahead(d, line, matched_key, la) ==
    LET dbg1 == Append(d.debug_info,
                       DebugEntry("Znaleziono pozycje", line, matched_key,
                                  <<>>, Zero, "")) \o la.debug
    IN  IF la.exc # "none"
        THEN [dane |-> [d EXCEPT !.debug_info = dbg1], exc |-> la.exc]
        ELSE IF Len(la.values) >= 2
        THEN zapisz_okresy(d, dbg1, matched_key,
                           pick(la.values)[1], pick(la.values)[2],
                           oblicz_zmiane_rr(pick(la.values)[1], pick(la.values)[2]))
        ELSE pomin(d, dbg1, matched_key, la.values)

\* one iteration of the while loop at 0-based index idx, on dictionary d
scan_line(lines, idx, d) ==
    LET line == strip(lines[idx + 1])
        k == lookup(line)
    IN  IF line = <<>> \/ k = 0 THEN [dane |-> d, exc |-> "none"]
        ELSE po_lookahead(d, line, financial_items_map[k].key,
                          lookahead(lines, idx + 1, MinOf(idx + 5, Len(lines)),
                                    [values |-> <<>>, debug |-> <<>>,
                                     exc |-> "none"]))

\* the whole while loop run on its own from index idx with dictionary d
RECURSIVE run_from(_, _, _)
run_from(lines, idx, d) ==
    IF idx >= Len(lines) THEN d
    ELSE LET r == scan_line(lines, idx, d)
         IN  IF r.exc # "none" THEN r.dane ELSE run_from(lines, idx + 1, r.dane)

\* ekstraktuj_dane_finansowe(text) executed alone, start to return
run_alone(lines) == run_from(lines, 0, EmptyDane)

(***************************************************************************)
(* Input texts: a text is the list text.split('\n'), never empty           *)
(***************************************************************************)
MaxLines == 4

NumCallers == 2

Callers == 1..NumCallers

L_zysk_netto ==
    <<"Z", "y", "s", "k", " ", "n", "e", "t", "t", "o">>

L_przychody ==
    <<"P", "r", "z", "y", "c", "h", "o", "d", "y", " ", "z", "e", " ", "s",
      "p", "r", "z", "e", "d", "a", "z_dot", "y">>

L_5 ==
    <<"5">>

L_0 ==
    <<"0">>

L_12_5 ==
    <<"1", " ", "2", ",", "5">>

L_blank ==
    <<>>

L_zysk_netto_colon ==
    <<"Z", "y", "s", "k", " ", "n", "e", "t", "t", "o", ":">>

L_zysk_netto_lower ==
    <<"z", "y", "s", "k", " ", "n", "e", "t", "t", "o">>

L_zysk_netto_padded ==
    <<" ", "Z", "y", "s", "k", " ", "n", "e", "t", "t", "o", "\t">>

L_3_tys ==
    <<"3", " ", "t", "y", "s">>

L_zysk ==
    <<"Z", "y", "s", "k">>

L_zysk_strata_netto ==
    <<"Z", "y", "s", "k", " ", "(", "s", "t", "r", "a", "t", "a", ")", " ",
      "n", "e", "t", "t", "o">>

L_w_tym ==
    <<"W", " ", "t", "y", "m", ":", " ", "z", "o", "b", "o", "w", "i",
      "a_ogonek", "z", "a", "n", "i", "a", " ", "k", "r", "o_acute", "t",
      "k", "o", "t", "e", "r", "m", "i", "n", "o", "w", "e">>

L_0_00 ==
    <<"0", ",", "0", "0">>

L_minus ==
    <<"-">>

L_0_paren ==
    <<"(", "0", ")">>

MaxScanLines == 6

MaxBlocks == 2

\* a label, an alias of it and a label of another key
RepeatLabels == {L_zysk_netto, L_zysk_strata_netto, L_przychody}

\* the lines that follow a label: no value, one value or two values
RepeatTails == {<<>>, <<L_5>>, <<L_5, L_12_5>>, <<L_12_5, L_5>>}

\* a label line with the lines that follow it
RepeatBlocks == {<<l>> \o t : l \in RepeatLabels, t \in RepeatTails}

\* a label, a label that contains a header word, blank lines and a value
WindowPool == {L_zysk_netto, L_w_tym, L_blank, L_5}

\* the three placeholder tokens, other lines that normalize to zero, a
\* value, a blank line and a header line
AcceptPool == {L_0, L_minus, L_0_paren, L_0_00, L_zysk, L_5, L_blank, L_3_tys}

L_5_PLN ==
    <<"5", " ", "P", "L", "N">>

\* header lines with digits, in lower and upper case, a label that contains
\* a header word, an ordinary label, a value and a blank line
NoisePool == {L_3_tys, L_5_PLN, L_w_tym, L_przychody, L_5, L_blank}

L_aktywa_obrotowe ==
    <<"A", "k", "t", "y", "w", "a", " ", "o", "b", "r", "o", "t", "o", "w",
      "e">>

L_zobowiazania_kr ==
    <<"Z", "o", "b", "o", "w", "i", "a_ogonek", "z", "a", "n", "i", "a", " ",
      "k", "r", "o_acute", "t", "k", "o", "t", "e", "r", "m", "i", "n", "o",
      "w", "e">>

L_zysk_brutto ==
    <<"Z", "y", "s", "k", " ", "b", "r", "u", "t", "t", "o">>

\* the labels of the metrics behind the liquidity ratio and the gross margin
ChainLabels == {L_aktywa_obrotowe, L_zobowiazania_kr, L_zysk_brutto, L_przychody}

ChainBlocks == {<<l, a, b>> : l \in ChainLabels, a \in {L_5, L_12_5}, b \in {L_5}}

LinePool ==
    {L_zysk_netto,
     L_przychody,
     L_5,
     L_0,
     L_12_5,
     L_blank,
     L_zysk_netto_colon,
     L_zysk_netto_lower,
     L_zysk_netto_padded,
     L_3_tys,
     L_zysk}

\* the synthetic block of the specification's testable properties
ExampleText ==
    <<
      <<"P", "r", "z", "y", "c", "h", "o", "d", "y", " ", "z", "e", " ", "s",
        "p", "r", "z", "e", "d", "a", "z_dot", "y">>,
      <<"1", " ", "0", "0", "0", " ", "0", "0", "0">>,
      <<"8", "0", "0", " ", "0", "0", "0">>,
      <<"1", "0", "0", " ", "0", "0", "0">>,
      <<"9", "0", " ", "0", "0", "0">>,
      <<"Z", "y", "s", "k", " ", "n", "e", "t", "t", "o">>,
      <<"1", "5", "0", " ", "0", "0", "0">>,
      <<"1", "2", "0", " ", "0", "0", "0">>
    >>

ExampleTexts == {ExampleText}

Texts == (SeqsUpTo(LinePool, MaxLines) \ {<<>>}) \cup ExampleTexts

ConcTexts ==
    { <<L_zysk_netto, L_5, L_0>>,
      <<L_zysk_netto, L_12_5, L_5>>,
      <<L_przychody, L_5, L_12_5>>,
      <<L_zysk_netto, L_5, L_przychody>> }

ScanIdle ==
    /\ text = [p \in Callers |-> <<L_blank>>]
    /\ i = [p \in Callers |-> 0]
    /\ dane = [p \in Callers |-> EmptyDane]
    /\ pc = [p \in Callers |-> "idle"]

(***************************************************************************)
(* Actions of an invocation p of ekstraktuj_dane_finansowe                 *)
(***************************************************************************)
\* the effect r of one iteration on invocation p: i += 1, or the exception
\* leaves the function
Iteration(p, r) ==
    /\ dane' = [dane EXCEPT ![p] = r.dane]
    /\ IF r.exc = "none"
       THEN /\ i' = [i EXCEPT ![p] = @ + 1]
            /\ pc' = pc
       ELSE /\ i' = i
            /\ pc' = [pc EXCEPT ![p] = "raised"]

\* one iteration of while i < len(lines)
ScanLine(p) ==
    /\ pc[p] = "scan"
    /\ i[p] < Len(text[p])
    /\ Iteration(p, scan_line(text[p], i[p], dane[p]))
    /\ UNCHANGED text

\* the loop condition fails: return dane
Return(p) ==
    /\ pc[p] = "scan"
    /\ i[p] >= Len(text[p])
    /\ pc' = [pc EXCEPT ![p] = "done"]
    /\ UNCHANGED <<text, i, dane>>

\* a further invocation by a caller whose previous call has returned
CallAgain(p, t) ==
    /\ pc[p] = "done"
    /\ text' = [text EXCEPT ![p] = t]
    /\ i' = [i EXCEPT ![p] = 0]
    /\ dane' = [dane EXCEPT ![p] = fresh_dane(dane[p])]
    /\ pc' = [pc EXCEPT ![p] = "scan"]

(***************************************************************************)
(* pobierz_raport_finansowy_espi and wyswietl_dane_finansowe at rest       *)
(***************************************************************************)
NoReport == [exc |-> "pending", dane_finansowe |-> EmptyDane]

PobIdle == full_text = <<>> /\ raport = NoReport /\ pob_pc = "idle"

NoView == [exc |-> "pending", output |-> <<>>]

WidokIdle == widok = NoView

(***************************************************************************)
(* pobierz_raport_finansowy_espi: the slice handed to the extraction       *)
(***************************************************************************)
\* s.find(sep): the 1-based index of the first occurrence, 0 when there is none
find(s, sep) ==
    LET hits == {k \in 1..(Len(s) - Len(sep) + 1) :
                     SubSeq(s, k, k + Len(sep) - 1) = sep}
    IN  IF hits = {} THEN 0 ELSE CHOOSE k \in hits : \A m \in hits : k <= m

\* s.split(sep, maxsplit); maxsplit = -1 stands for no limit
RECURSIVE split(_, _, _)
split(s, sep, maxsplit) ==
    IF maxsplit = 0 \/ find(s, sep) = 0 THEN <<s>>
    ELSE <<SubSeq(s, 1, find(s, sep) - 1)>>
         \o split(SubSeq(s, find(s, sep) + Len(sep), Len(s)), sep, maxsplit - 1)

\* "\n".join(lines)
RECURSIVE join_lines(_)
join_lines(lines) ==
    IF lines = <<>> THEN <<>>
    ELSE IF Len(lines) = 1 THEN lines[1]
    ELSE lines[1] \o <<"\n">> \o join_lines(Tail(lines))

START_MARKER ==
    <<"W", "Y", "B", "R", "A", "N", "E", " ", "D", "A", "N", "E", " ", "F",
      "I", "N", "A", "N", "S", "O", "W", "E">>

KOREKTA_MARKER ==
    <<"I", "N", "F", "O", "R", "M", "A", "C", "J", "A", " ", "O", " ", "K",
      "O", "R", "E", "K", "C", "I", "E", " ", "R", "A", "P", "O", "R", "T",
      "U">>

\* full_text.split("WYBRANE DANE FINANSOWE", 2)[2]
po_znaczniku(parts) ==
    IF Len(parts) >= 3 THEN [exc |-> "none", val |-> parts[3]]
    ELSE [exc |-> "IndexError", val |-> <<>>]

\* dane_finansowe_raw = "WYBRANE DANE FINANSOWE\n" + ...[2].split("INFORMACJA O KOREKCIE RAPORTU")[0]
dane_finansowe_raw(ft) ==
    IF po_znaczniku(split(ft, START_MARKER, 2)).exc # "none"
    THEN po_znaczniku(split(ft, START_MARKER, 2))
    ELSE [exc |-> "none",
          val |-> START_MARKER \o <<"\n">>
                  \o split(po_znaczniku(split(ft, START_MARKER, 2)).val,
                           KOREKTA_MARKER, -1)[1]]

MaxDocLines == 5

DocPool == {START_MARKER, KOREKTA_MARKER, L_zysk_netto, L_5, L_12_5}

\* soup.get_text("\n", strip=True): non-empty pieces joined by newlines
Documents ==
    UNION { {join_lines(f) : f \in [1..n -> DocPool]} : n \in 1..MaxDocLines }

\* the slice is cut and ekstraktuj_dane_finansowe is called on it
Pobierz ==
    /\ pob_pc = "start"
    /\ IF dane_finansowe_raw(full_text).exc # "none"
       THEN /\ pob_pc' = "raised"
            /\ raport' = [raport EXCEPT !.exc = dane_finansowe_raw(full_text).exc]
            /\ UNCHANGED scan_vars
       ELSE /\ pob_pc' = "extract"
            /\ text' = [text EXCEPT ![1] =
                            split(dane_finansowe_raw(full_text).val, <<"\n">>, -1)]
            /\ i' = [i EXCEPT ![1] = 0]
            /\ dane' = [dane EXCEPT ![1] = fresh_dane(dane[1])]
            /\ pc' = [pc EXCEPT ![1] = "scan"]
            /\ UNCHANGED raport
    /\ UNCHANGED full_text

\* the extraction has returned: return {..., "dane_finansowe": dane_finansowe}
Zwroc ==
    /\ pob_pc = "extract"
    /\ pc[1] \in {"done", "raised"}
    /\ IF pc[1] = "done"
       THEN /\ raport' = [exc |-> "none", dane_finansowe |-> dane[1]]
            /\ pob_pc' = "done"
       ELSE /\ raport' = [raport EXCEPT !.exc = "raised"]
            /\ pob_pc' = "raised"
    /\ UNCHANGED <<full_text, scan_vars>>

(***************************************************************************)
(* Trimming of report content at closing markers                           *)
(* (pobierz_raport_finansowy_espi, ESPIMonitor.pobierz_komunikat_espiebi)  *)
(***************************************************************************)
FINANCIAL_SECTION_END_MARKERS ==
    <<
      <<"P", "o", "d", "p", "i", "s", "y", " ", "o", "s", "o_acute", "b",
        " ", "o", "d", "p", "o", "w", "i", "e", "d", "z", "i", "a", "l", "n",
        "y", "c", "h">>,
      <<"P", "o", "d", "p", "i", "s", "y", " ", "c", "z", "l_stroke", "o",
        "n", "k", "o_acute", "w", " ", "z", "a", "r", "z", "a_ogonek", "d",
        "u">>,
      <<"Z", "a", "l_stroke", "a_ogonek", "c", "z", "n", "i", "k", "i">>,
      <<"D", "o", "d", "a", "t", "k", "o", "w", "e", " ", "i", "n", "f", "o",
        "r", "m", "a", "c", "j", "e">>,
      <<"K", "o", "m", "e", "n", "t", "a", "r", "z", " ", "z", "a", "r", "z",
        "a_ogonek", "d", "u">>,
      <<"O", "s_acute", "w", "i", "a", "d", "c", "z", "e", "n", "i", "a">>,
      <<"D", "a", "t", "a", " ", "s", "p", "o", "r", "z", "a_ogonek", "d",
        "z", "e", "n", "i", "a">>,
      <<"W", "a", "r", "s", "z", "a", "w", "a", ",", " ", "d", "n", "i", "a">>
    >>

SECTION_END_MARKERS ==
    <<
      <<"Z", "a", "l_stroke", "a_ogonek", "c", "z", "n", "i", "k", "i">>,
      <<"M", "E", "S", "S", "A", "G", "E", " ", "(", "E", "N", "G", "L", "I",
        "S", "H", " ", "V", "E", "R", "S", "I", "O", "N", ")">>,
      <<"I", "N", "F", "O", "R", "M", "A", "C", "J", "E", " ", "O", " ", "P",
        "O", "D", "M", "I", "O", "C", "I", "E">>,
      <<"P", "O", "D", "P", "I", "S", "Y", " ", "O", "S", "O_acute", "B",
        " ", "R", "E", "P", "R", "E", "Z", "E", "N", "T", "U", "J",
        "A_ogonek", "C", "Y", "C", "H", " ", "S", "P", "O_acute", "L_stroke",
        "K", "E_ogonek">>,
      <<"P", "O", "D", "P", "I", "S", "Y">>
    >>

\* for marker in markers: idx = tresc.find(marker)
\*     if idx != -1: tresc = tresc[:idx].strip(); break
RECURSIVE przytnij(_, _)
przytnij(t, markers) ==
    IF markers = <<>> THEN t
    ELSE IF find(t, Head(markers)) # 0
    THEN strip(SubSeq(t, 1, find(t, Head(markers)) - 1))
    ELSE przytnij(t, Tail(markers))

MarkerLists == {"FINANCIAL_SECTION_END_MARKERS", "SECTION_END_MARKERS"}

MarkersOf(lista) ==
    IF lista = "FINANCIAL_SECTION_END_MARKERS" THEN FINANCIAL_SECTION_END_MARKERS
    ELSE SECTION_END_MARKERS

MaxPieces == 2

\* the pieces a content is made of: every closing marker and two other words
TrimPieces ==
    {FINANCIAL_SECTION_END_MARKERS[m] : m \in 1..Len(FINANCIAL_SECTION_END_MARKERS)}
    \cup {SECTION_END_MARKERS[m] : m \in 1..Len(SECTION_END_MARKERS)}
    \cup {<<"a", " ">>, <<" ", "b">>}

NoTrim == [lista |-> "", wynik |-> <<>>]

TrimIdle == tresc = <<>> /\ przyciete = NoTrim /\ trim_pc = "idle"

\* the content is trimmed at the markers of one of the two lists
Przytnij(lista) ==
    /\ trim_pc = "start"
    /\ przyciete' = [lista |-> lista, wynik |-> przytnij(tresc, MarkersOf(lista))]
    /\ trim_pc' = "done"
    /\ UNCHANGED tresc

(***************************************************************************)
(* wyswietl_dane_finansowe (the second definition, the one in effect).     *)
(* The returned text is modelled as the list of its parts; the rows of a   *)
(* section are kept as a set, a formatted number as the rounded value with *)
(* its format.                                                             *)
(***************************************************************************)
\* a formatted value: the rounded number and its format
Fmt(v, f) == [val |-> v, fmt |-> f]

\* emoji_map.get(trend, <question mark>)
format_trend(t) ==
    CASE t = "wzrost" -> "chart_up"
      [] t = "spadek" -> "chart_down"
      [] t = "stabilny" -> "arrow_right"
      [] t = "bez_zmian" -> "black_circle"
      [] t = "nowy" -> "new"
      [] OTHER -> "question_mark"

\* f"{x:,.0f}".replace(',', ' ') if x else "0"
fmt_tys(x) ==
    IF x.n = 0 THEN Fmt(Zero, "0")
    ELSE IF x.e = -1 THEN Fmt(Inf, ",.0f")
    ELSE Fmt(IntNum(RoundHalfEven(x.n, Pow10(x.e))), ",.0f")

\* f"{x:+.1f}%" if x != float('inf') else "N/A"
fmt_proc(x) ==
    IF x.e = -1 THEN Fmt(Inf, "N/A")
    ELSE Fmt(Norm(RoundHalfEven(x.n * 10, Pow10(x.e)), 1), "+.1f%")

\* one row of display_section for key
wiersz(section_data, key) ==
    LET poprzedni == IF key \in DOMAIN section_data.poprzedni_okres
                     THEN section_data.poprzedni_okres[key] ELSE Zero
        jest == key \in DOMAIN section_data.analiza_rr
        a == section_data.analiza_rr
    IN  [key |-> key,
         obecny |-> fmt_tys(section_data.obecny_okres[key]),
         poprzedni |-> fmt_tys(poprzedni),
         zmiana |-> fmt_tys(IF jest THEN a[key].zmiana_bezwzgledna ELSE Zero),
         proc |-> fmt_proc(IF jest THEN a[key].zmiana_procentowa ELSE Zero),
         emoji |-> format_trend(IF jest THEN a[key].trend ELSE "brak"),
         trend |-> IF jest THEN a[key].trend ELSE "brak"]

\* display_section(title, section_data)
display_section(title, section_data) ==
    IF "obecny_okres" \notin DOMAIN section_data
    THEN [exc |-> "KeyError", output |-> <<[typ |-> "title", title |-> title]>>]
    ELSE IF section_data.obecny_okres = EmptyDict
    THEN [exc |-> "none",
          output |-> <<[typ |-> "title", title |-> title],
                       [typ |-> "Brak danych do wyswietlenia"]>>]
    ELSE IF \/ "poprzedni_okres" \notin DOMAIN section_data
            \/ "analiza_rr" \notin DOMAIN section_data
    THEN [exc |-> "KeyError", output |-> <<[typ |-> "title", title |-> title]>>]
    ELSE [exc |-> "none",
          output |-> <<[typ |-> "title", title |-> title],
                       [typ |-> "header"],
                       [typ |-> "rows",
                        rows |-> {wiersz(section_data, key) :
                                  key \in DOMAIN section_data.obecny_okres}]>>]

kluczowe_wskazniki ==
    <<"przychody_sprzedazy", "zysk_operacyjny", "zysk_netto", "aktywa_razem",
      "kapital_wlasny">>

\* for key, display_name in kluczowe_wskazniki: if key in skons['analiza_rr']: ...
podsumowanie(skons) ==
    IF "analiza_rr" \notin DOMAIN skons
    THEN [exc |-> "KeyError", output |-> <<>>]
    ELSE [exc |-> "none",
          output |->
              [m \in 1..Len(SelectSeq(kluczowe_wskazniki,
                                      LAMBDA k : k \in DOMAIN skons.analiza_rr)) |->
                  [typ |-> "bullet",
                   key |-> SelectSeq(kluczowe_wskazniki,
                                     LAMBDA k : k \in DOMAIN skons.analiza_rr)[m],
                   proc |-> fmt_proc(skons.analiza_rr[
                                SelectSeq(kluczowe_wskazniki,
                                          LAMBDA k : k \in DOMAIN skons.analiza_rr)[m]
                                ].zmiana_procentowa),
                   emoji |-> format_trend(skons.analiza_rr[
                                SelectSeq(kluczowe_wskazniki,
                                          LAMBDA k : k \in DOMAIN skons.analiza_rr)[m]
                                ].trend)]]]

\* the statements after the two display_section calls, given their results
po_sekcjach(s1, s2, sum) ==
    IF s1.exc # "none" THEN [exc |-> s1.exc, output |-> s1.output]
    ELSE IF s2.exc # "none" THEN [exc |-> s2.exc, output |-> s1.output \o s2.output]
    ELSE IF sum.exc # "none" THEN [exc |-> sum.exc, output |-> s1.output \o s2.output]
    ELSE [exc |-> "none",
          output |-> s1.output \o s2.output \o <<[typ |-> "summary"]>> \o sum.output]

\* display_section("DANE SKONSOLIDOWANE", dane['skonsolidowane'])
\* display_section("DANE JEDNOSTKOWE", dane['jednostkowe']) ...
wyswietl_dane_finansowe(d) ==
    IF "skonsolidowane" \notin DOMAIN d THEN [exc |-> "KeyError", output |-> <<>>]
    ELSE IF "jednostkowe" \notin DOMAIN d
    THEN [exc |-> "KeyError",
          output |-> display_section("DANE SKONSOLIDOWANE", d.skonsolidowane).output]
    ELSE po_sekcjach(display_section("DANE SKONSOLIDOWANE", d.skonsolidowane),
                     display_section("DANE JEDNOSTKOWE", d.jednostkowe),
                     podsumowanie(d.skonsolidowane))

\* the presenter applied to the result the extraction has returned
Wyswietl ==
    /\ pc[1] = "done"
    /\ widok = NoView
    /\ widok' = wyswietl_dane_finansowe(dane[1])

(***************************************************************************)
(* ekstraktuj_wskazniki_finansowe                                          *)
(***************************************************************************)
None == <<>>

Some(v) == <<v>>

\* d.get(k)
get(d, k) == IF k \in DOMAIN d THEN Some(d[k]) ELSE None

RECURSIVE DigitsOf(_)
DigitsOf(m) ==
    IF m < 10 THEN <<Digits[m + 1]>> ELSE Append(DigitsOf(m \div 10), Digits[(m % 10) + 1])

RECURSIVE Zeros(_)
Zeros(k) == IF k <= 0 THEN <<>> ELSE <<"0">> \o Zeros(k - 1)

\* str(x) of a float: 'inf'; scientific notation below 1e-04; otherwise
\* positional notation with at least one fractional digit
str_float(x) ==
    IF x.e = -1 THEN <<"i", "n", "f">>
    ELSE LET sign == IF x.n < 0 THEN <<"-">> ELSE <<>>
             ds == DigitsOf(Abs(x.n))
             exp10 == Len(ds) - 1 - x.e
         IN  IF x.n = 0 THEN <<"0", ".", "0">>
             ELSE IF exp10 < -4
             THEN sign \o <<ds[1]>>
                  \o (IF Len(ds) > 1 THEN <<".">> \o Tail(ds) ELSE <<>>)
                  \o <<"e", "-">>
                  \o (IF -exp10 < 10 THEN <<"0">> ELSE <<>>) \o DigitsOf(-exp10)
             ELSE IF x.e = 0 THEN sign \o ds \o <<".", "0">>
             ELSE IF Len(ds) > x.e
             THEN sign \o SubSeq(ds, 1, Len(ds) - x.e) \o <<".">>
                  \o SubSeq(ds, Len(ds) - x.e + 1, Len(ds))
             ELSE sign \o <<"0", ".">> \o Zeros(x.e - Len(ds)) \o ds

\* re.sub(r'[^\d.,\-]', '', s)
KeepDigitDotCommaMinus(c) == IsDigit(c) \/ c \in {".", ",", "-"}

\* float(clean_str) in try / except (ValueError, TypeError): return None
float_or_none(clean_str) ==
    IF float(clean_str).exc = "ValueError" THEN None ELSE Some(float(clean_str).val)

\* the comma handling of to_number on clean_str = re.sub(r'[^\d.,\-]', '', ...)
przecinki(clean_str) ==
    LET parts == Cardinality({k \in 1..Len(clean_str) : clean_str[k] = ","}) + 1
        after == Len(clean_str) - (CHOOSE k \in 1..Len(clean_str) : clean_str[k] = ",")
    IN  IF Contains(clean_str, ",") /\ Contains(clean_str, ".")
        THEN SelectSeq(clean_str, LAMBDA c : c # ",")
        ELSE IF Contains(clean_str, ",")
        THEN IF parts = 2 /\ after <= 2
             THEN replace(clean_str, ",", ".")
             ELSE SelectSeq(clean_str, LAMBDA c : c # ",")
        ELSE clean_str

\* to_number(value_str) for a float or None taken from a period mapping
to_number(value_str) ==
    IF value_str = None THEN None
    ELSE IF value_str[1].n = 0 THEN None
    ELSE float_or_none(przecinki(
             SelectSeq(strip(str_float(value_str[1])), KeepDigitDotCommaMinus)))

Positive(x) == x # None /\ x[1].n > 0

\* round(a / b * 100, 2) and round(a / b, 2) for b > 0, as formatted by :.2f
Ratio100(a, b) ==
    LET E == MaxOf(a.e, b.e)
    IN  Norm(RoundHundredths(Scaled(a, E) * 100, Scaled(b, E)), 2)

Ratio1(a, b) ==
    LET E == MaxOf(a.e, b.e)
    IN  Norm(RoundHundredths(Scaled(a, E), Scaled(b, E)), 2)

\* ((a - b) / abs(b)) * 100 for b # 0, as formatted by :+.2f
Growth(a, b) ==
    LET f == procent(a, b) IN Norm(RoundHundredths(f.num, f.den), 2)

\* a / b * 100 - c / d * 100 for b, d > 0, as formatted by :+.2f
MarginChange(a, b, c, d) ==
    LET E == MaxOf(MaxOf(a.e, b.e), MaxOf(c.e, d.e))
        A == Scaled(a, E)
        B == Scaled(b, E)
        C == Scaled(c, E)
        D == Scaled(d, E)
    IN  Norm(RoundHundredths((A * D - C * B) * 100, B * D), 2)

\* variant of the liquidity guard without the positivity test
plynnosc_guard_any(aktywa_obrotowe, zobowiazania_kr) ==
    aktywa_obrotowe # None /\ zobowiazania_kr # None

\* aktywa_obrotowe is not None and zobowiazania_kr is not None and zobowiazania_kr > 0
plynnosc_guard(aktywa_obrotowe, zobowiazania_kr) ==
    aktywa_obrotowe # None /\ Positive(zobowiazania_kr)

\* variant of the asset-growth guard with != 0
aktywa_guard_nonzero(aktywa, aktywa_poprz) ==
    aktywa # None /\ aktywa_poprz # None /\ aktywa_poprz[1].n # 0

\* aktywa is not None and aktywa_poprz is not None and aktywa_poprz > 0
aktywa_guard(aktywa, aktywa_poprz) ==
    aktywa # None /\ Positive(aktywa_poprz)

\* x is not None and x_poprz is not None and x_poprz != 0
nonzero_guard(x, x_poprz) == x # None /\ x_poprz # None /\ x_poprz[1].n # 0

\* a period entry that is not a mapping (None): it has no get()
NieSlownik == [k \in {"None"} |-> Zero]

\* variant of the handler that returns the error entry alone
blad_sam(w, e) == Put(EmptyDict, "error", Fmt(Zero, e))

\* except Exception as e: wskazniki['error'] = f"...{str(e)}"
blad(w, e) == Put(w, "error", Fmt(Zero, e))

\* the first okres.get(...) of the try block: AttributeError when okres is
\* not a mapping
czytaj(w, okres) ==
    IF "error" \in DOMAIN w THEN w
    ELSE IF okres = NieSlownik THEN blad(w, "AttributeError")
    ELSE w

\* if guard: wskazniki[name] = value, inside the try block: nothing more is
\* written once an exception has been caught
ustaw(w, guard, name, value) ==
    IF "error" \in DOMAIN w THEN w
    ELSE IF guard THEN Put(w, name, value)
    ELSE w

\* if <liquidity guard>: wskazniki['plynnosc_biezaca'] = ...; a zero divisor
\* raises, and except Exception stores 'error'
plynnosc(w, aktywa_obrotowe, zobowiazania_kr) ==
    IF plynnosc_guard(aktywa_obrotowe, zobowiazania_kr)
    THEN IF zobowiazania_kr[1].n = 0
         THEN blad(w, "ZeroDivisionError")
         ELSE IF zobowiazania_kr[1].n < 0
         THEN Put(w, "plynnosc_biezaca",
                  Fmt(Ratio1([n |-> -aktywa_obrotowe[1].n,
                              e |-> aktywa_obrotowe[1].e],
                             [n |-> -zobowiazania_kr[1].n,
                              e |-> zobowiazania_kr[1].e]), ".2f"))
         ELSE Put(w, "plynnosc_biezaca",
                  Fmt(Ratio1(aktywa_obrotowe[1], zobowiazania_kr[1]), ".2f"))
    ELSE w

\* the try block on the parsed values
oblicz_wskazniki(obecny, poprzedni, zysk_netto, przychody, zysk_operacyjny, zysk_brutto, aktywa_obrotowe, zobowiazania_kr, zobowiazania, aktywa, kapital_wlasny, przychody_poprz, zysk_netto_poprz, zysk_op_poprz, aktywa_poprz, kapital_poprz) ==
    LET w0 == czytaj(EmptyDict, obecny)
        w1 == ustaw(w0, zysk_netto # None /\ Positive(przychody),
                    "rentownosc_netto",
                    Fmt(Ratio100(zysk_netto[1], przychody[1]), ".2f%"))
        w2 == ustaw(w1, zysk_operacyjny # None /\ Positive(przychody),
                    "rentownosc_operacyjna",
                    Fmt(Ratio100(zysk_operacyjny[1], przychody[1]), ".2f%"))
        w3 == ustaw(w2, zysk_brutto # None /\ Positive(przychody),
                    "marza_brutto",
                    Fmt(Ratio100(zysk_brutto[1], przychody[1]), ".2f%"))
        w4 == plynnosc(w3, aktywa_obrotowe, zobowiazania_kr)
        w5 == ustaw(w4, zobowiazania # None /\ Positive(aktywa),
                    "wskaznik_zadluzenia",
                    Fmt(Ratio100(zobowiazania[1], aktywa[1]), ".2f%"))
        w6 == ustaw(w5, zysk_netto # None /\ Positive(kapital_wlasny),
                    "roe", Fmt(Ratio100(zysk_netto[1], kapital_wlasny[1]), ".2f%"))
        w7 == ustaw(w6, zysk_netto # None /\ Positive(aktywa),
                    "roa", Fmt(Ratio100(zysk_netto[1], aktywa[1]), ".2f%"))
        w7p == czytaj(w7, poprzedni)
        w8 == ustaw(w7p, nonzero_guard(przychody, przychody_poprz),
                    "wzrost_przychodow",
                    Fmt(Growth(przychody[1], przychody_poprz[1]), "+.2f%"))
        w9 == ustaw(w8, nonzero_guard(zysk_netto, zysk_netto_poprz),
                    "wzrost_zysku_netto",
                    Fmt(Growth(zysk_netto[1], zysk_netto_poprz[1]), "+.2f%"))
        w10 == ustaw(w9, nonzero_guard(zysk_operacyjny, zysk_op_poprz),
                     "wzrost_zysku_operacyjnego",
                     Fmt(Growth(zysk_operacyjny[1], zysk_op_poprz[1]), "+.2f%"))
        w11 == ustaw(w10, aktywa_guard(aktywa, aktywa_poprz),
                     "wzrost_aktywow",
                     Fmt(Growth(aktywa[1], aktywa_poprz[1]), "+.2f%"))
        w12 == ustaw(w11, kapital_wlasny # None /\ Positive(kapital_poprz),
                     "wzrost_kapitalu_wlasnego",
                     Fmt(Growth(kapital_wlasny[1], kapital_poprz[1]), "+.2f%"))
        w13 == ustaw(w12, /\ zysk_netto # None /\ Positive(przychody)
                          /\ zysk_netto_poprz # None /\ Positive(przychody_poprz),
                     "zmiana_marzy_netto",
                     Fmt(MarginChange(zysk_netto[1], przychody[1],
                                      zysk_netto_poprz[1], przychody_poprz[1]),
                         "+.2f p.p."))
    IN  w13

ekstraktuj_wskazniki_finansowe(df) ==
    oblicz_wskazniki(
        df.obecny_okres, df.poprzedni_okres,
        to_number(get(df.obecny_okres, "zysk_netto")),
        to_number(get(df.obecny_okres, "przychody_sprzedazy")),
        to_number(get(df.obecny_okres, "zysk_operacyjny")),
        to_number(get(df.obecny_okres, "zysk_brutto_sprzedazy")),
        to_number(get(df.obecny_okres, "aktywa_obrotowe")),
        to_number(get(df.obecny_okres, "zobowiazania_krotkotermindowe")),
        to_number(get(df.obecny_okres, "zobowiazania_razem")),
        to_number(get(df.obecny_okres, "aktywa_razem")),
        to_number(get(df.obecny_okres, "kapital_wlasny")),
        to_number(get(df.poprzedni_okres, "przychody_sprzedazy")),
        to_number(get(df.poprzedni_okres, "zysk_netto")),
        to_number(get(df.poprzedni_okres, "zysk_operacyjny")),
        to_number(get(df.poprzedni_okres, "aktywa_razem")),
        to_number(get(df.poprzedni_okres, "kapital_wlasny")))

(***************************************************************************)
(* ESPIMonitor (app/espi_monitor.py): run, run_once, process_entries,      *)
(* display_matches.  An entry stands for its (title, link) pair;           *)
(* generate_entry_hash is taken to be injective on these pairs.            *)
(***************************************************************************)
NumEntries == 3

MaxPolls == 3

Entries == 1..NumEntries

\* check_company_match(entry['title']): the titles of entries 3, 6, ... name
\* no watched company and are no reports
check_company_match(e) == e % 3 # 0

\* the lists parse_entries can return: entries of the page, none twice
Pages ==
    {p \in SeqsUpTo(Entries, NumEntries) : \A k, m \in 1..Len(p) : p[k] = p[m] => k = m}

\* fetch_page() followed by parse_entries(): None when the fetch failed
Polled == {None} \cup {Some(p) : p \in Pages}

Hashes(entries) == {entries[k] : k \in 1..Len(entries)}

\* process_entries(entries) with self.previous_entries = prev
process_entries(entries, prev) ==
    [new_matches |-> SelectSeq(entries, LAMBDA e : e \notin prev /\ check_company_match(e)),
     previous_entries |-> Hashes(entries)]

\* display_matches(matches) when the analysis call of match number fail
\* raises (fail = 0: no call raises): the matches notified before it
display_matches(new_matches, fail) ==
    [sent |-> Hashes(SubSeq(new_matches, 1,
                            IF fail = 0 THEN Len(new_matches) ELSE fail - 1)),
     exc |-> IF fail = 0 THEN "none" ELSE "Exception"]

Inc(f, S) == [e \in Entries |-> IF e \in S THEN f[e] + 1 ELSE f[e]]

\* variant of the early returns of run_once without the test of entries
pusty_fetch(st) == st = None

\* if not html_content: return ... if not entries: return
pusty(st) == st = None \/ st[1] = <<>>

\* matches = process_entries(entries); if matches: display_matches(matches)
\* pe is the result of process_entries, d that of display_matches
przetworz(pe, d) ==
    /\ previous_entries' = pe.previous_entries
    /\ returned' = Inc(returned, Hashes(pe.new_matches))
    /\ notified' = Inc(notified, d.sent)

\* the part of run before the loop
RunFirst(st, fail) ==
    /\ mon_pc = "start"
    /\ strona' = st
    /\ polls' = polls
    /\ IF st = None
       THEN /\ mon_pc' = "loop"
            /\ UNCHANGED <<previous_entries, returned, notified>>
       ELSE /\ fail <= Len(process_entries(st[1], previous_entries).new_matches)
            /\ przetworz(process_entries(st[1], previous_entries),
                         display_matches(process_entries(st[1], previous_entries).new_matches,
                                         fail))
            /\ mon_pc' = IF fail = 0 THEN "loop" ELSE "crashed"

\* one iteration of while True: self.run_once(); an exception leaves the loop
\* through except Exception
RunOnce(st, fail) ==
    /\ mon_pc = "loop"
    /\ polls < MaxPolls
    /\ polls' = polls + 1
    /\ strona' = st
    /\ IF pusty(st)
       THEN /\ fail = 0
            /\ mon_pc' = "loop"
            /\ UNCHANGED <<previous_entries, returned, notified>>
       ELSE /\ fail <= Len(process_entries(st[1], previous_entries).new_matches)
            /\ przetworz(process_entries(st[1], previous_entries),
                         display_matches(process_entries(st[1], previous_entries).new_matches,
                                         fail))
            /\ mon_pc' = IF fail = 0 THEN "loop" ELSE "stopped"

MonIdle ==
    /\ previous_entries = {}
    /\ strona = None
    /\ returned = [e \in Entries |-> 0]
    /\ notified = [e \in Entries |-> 0]
    /\ polls = 0
    /\ mon_pc = "idle"

\* ekstraktuj_wskazniki_finansowe applied to the result the extraction of
\* invocation 1 has returned
WskaznikiZWyniku ==
    /\ pc[1] = "done"
    /\ wsk_pc = "idle"
    /\ dane_finansowe' = [obecny_okres |-> dane[1].obecny_okres,
                          poprzedni_okres |-> dane[1].poprzedni_okres]
    /\ wskazniki' = ekstraktuj_wskazniki_finansowe(dane[1])
    /\ wsk_pc' = "done"

(***************************************************************************)
(* Inputs of the ratio calculator: period mappings with at most            *)
(* MaxPresent entries, plus fixed examples                                 *)
(***************************************************************************)
MaxPresent == 3

ObecnyKeys ==
    {"zysk_netto", "przychody_sprzedazy", "zysk_operacyjny", "zysk_brutto_sprzedazy",
     "aktywa_obrotowe", "zobowiazania_krotkotermindowe", "zobowiazania_krotkoterminowe",
     "zobowiazania_razem", "aktywa_razem", "kapital_wlasny"}

PoprzedniKeys ==
    {"przychody_sprzedazy", "zysk_netto", "zysk_operacyjny", "aktywa_razem",
     "kapital_wlasny"}

Slots ==
    {[okres |-> "obecny", key |-> k] : k \in ObecnyKeys}
    \cup {[okres |-> "poprzedni", key |-> k] : k \in PoprzedniKeys}

RatioValues == {IntNum(-2), Zero, IntNum(3)}

Mapping(S, f, okres) ==
    [k \in {s.key : s \in {t \in S : t.okres = okres}} |->
        f[[okres |-> okres, key |-> k]]]

SlotSets == {T \in SUBSET Slots : Cardinality(T) <= MaxPresent}

\* the period mappings holding the values f of the slots S
Input(S, f) ==
    [obecny_okres |-> Mapping(S, f, "obecny"),
     poprzedni_okres |-> Mapping(S, f, "poprzedni")]

MarginKeys == {"zysk_netto", "przychody_sprzedazy"}

ExampleInputs ==
    { [obecny_okres |-> [k \in MarginKeys |-> IF k = "zysk_netto" THEN a ELSE b],
       poprzedni_okres |-> [k \in MarginKeys |-> IF k = "zysk_netto" THEN c ELSE d]] :
      a \in {IntNum(3)}, b \in RatioValues, c \in {IntNum(-2), IntNum(3)},
      d \in RatioValues }
    \cup
    { [obecny_okres |-> [k \in {"aktywa_obrotowe", "zobowiazania_krotkotermindowe"} |-> v],
       poprzedni_okres |-> EmptyDict] :
      v \in {Inf, [n |-> 1, e |-> 5], [n |-> -15, e |-> 6], [n |-> 125, e |-> 2]} }

NoInput == [obecny_okres |-> EmptyDict, poprzedni_okres |-> EmptyDict]

WskIdle == dane_finansowe = NoInput /\ wskazniki = EmptyDict /\ wsk_pc = "idle"

EkstraktujWskazniki ==
    /\ wsk_pc = "start"
    /\ wskazniki' = ekstraktuj_wskazniki_finansowe(dane_finansowe)
    /\ wsk_pc' = "done"
    /\ UNCHANGED dane_finansowe

(***************************************************************************)
(* Specifications                                                          *)
(***************************************************************************)
\* one invocation of ekstraktuj_dane_finansowe on any text of Texts
Init ==
    /\ \E t \in Texts : text = [p \in Callers |-> IF p = 1 THEN t ELSE <<L_blank>>]
    /\ i = [p \in Callers |-> 0]
    /\ dane = [p \in Callers |-> fresh_dane(EmptyDane)]
    /\ pc = [p \in Callers |-> IF p = 1 THEN "scan" ELSE "idle"]
    /\ CnIdle /\ RrIdle /\ WskIdle /\ PobIdle /\ WidokIdle /\ TrimIdle /\ MonIdle

Next ==
    \/ ScanLine(1) /\ UNCHANGED <<cn_vars, rr_vars, wsk_vars, pob_vars, widok, trim_vars, mon_vars>>
    \/ Return(1) /\ UNCHANGED <<cn_vars, rr_vars, wsk_vars, pob_vars, widok, trim_vars, mon_vars>>

Spec == Init /\ [][Next]_vars

\* concurrent and repeated invocations by all callers
InitConc ==
    /\ text \in [Callers -> ConcTexts]
    /\ i = [p \in Callers |-> 0]
    /\ dane = [p \in Callers |-> fresh_dane(EmptyDane)]
    /\ pc = [p \in Callers |-> "scan"]
    /\ CnIdle /\ RrIdle /\ WskIdle /\ PobIdle /\ WidokIdle /\ TrimIdle /\ MonIdle

NextConc ==
    \/ \E p \in Callers : ScanLine(p) /\ UNCHANGED <<cn_vars, rr_vars, wsk_vars, pob_vars, widok, trim_vars, mon_vars>>
    \/ \E p \in Callers : Return(p) /\ UNCHANGED <<cn_vars, rr_vars, wsk_vars, pob_vars, widok, trim_vars, mon_vars>>
    \/ \E p \in Callers : \E t \in ConcTexts :
           CallAgain(p, t) /\ UNCHANGED <<cn_vars, rr_vars, wsk_vars, pob_vars, widok, trim_vars, mon_vars>>

SpecConc == InitConc /\ [][NextConc]_vars

\* clean_number on any token
InitClean ==
    /\ \/ token \in FreeTokens /\ forma = NoForm
       \/ \E f \in Forms : token = FormToken(f) /\ forma = f
    /\ wynik = NoResult
    /\ cn_pc = "start"
    /\ ScanIdle /\ RrIdle /\ WskIdle /\ PobIdle /\ WidokIdle /\ TrimIdle /\ MonIdle

NextClean == CleanNumber /\ UNCHANGED <<rr_vars, scan_vars, wsk_vars, pob_vars, widok, trim_vars, mon_vars>>

SpecClean == InitClean /\ [][NextClean]_vars

\* oblicz_zmiane_rr on any pair
InitCompare ==
    /\ para \in [obecny : CompareValues, poprzedni : CompareValues]
    /\ zmiana = NoChange
    /\ rr_pc = "start"
    /\ CnIdle /\ ScanIdle /\ WskIdle /\ PobIdle /\ WidokIdle /\ TrimIdle /\ MonIdle

NextCompare == ObliczZmianeRR /\ UNCHANGED <<cn_vars, scan_vars, wsk_vars, pob_vars, widok, trim_vars, mon_vars>>

SpecCompare == InitCompare /\ [][NextCompare]_vars

\* ekstraktuj_wskazniki_finansowe on any pair of period mappings
InitRatio ==
    /\ \/ \E S \in SlotSets : \E f \in [S -> RatioValues] :
              dane_finansowe = Input(S, f)
       \/ dane_finansowe \in ExampleInputs
    /\ wskazniki = EmptyDict
    /\ wsk_pc = "start"
    /\ CnIdle /\ RrIdle /\ ScanIdle /\ PobIdle /\ WidokIdle /\ TrimIdle /\ MonIdle

NextRatio == EkstraktujWskazniki /\ UNCHANGED <<cn_vars, rr_vars, scan_vars, pob_vars, widok, trim_vars, mon_vars>>

SpecRatio == InitRatio /\ [][NextRatio]_vars

\* ekstraktuj_wskazniki_finansowe on inputs whose period entries may be None
Zepsute == {{}, {"poprzedni_okres"}, {"obecny_okres"}}

Zepsuj(df, zle) ==
    [obecny_okres |-> IF "obecny_okres" \in zle THEN NieSlownik
                      ELSE df.obecny_okres,
     poprzedni_okres |-> IF "poprzedni_okres" \in zle THEN NieSlownik
                         ELSE df.poprzedni_okres]

InitRatioAny ==
    /\ \E S \in SlotSets : \E f \in [S -> RatioValues] : \E zle \in Zepsute :
           dane_finansowe = Zepsuj(Input(S, f), zle)
    /\ wskazniki = EmptyDict
    /\ wsk_pc = "start"
    /\ CnIdle /\ RrIdle /\ ScanIdle /\ PobIdle /\ WidokIdle /\ TrimIdle /\ MonIdle

SpecRatioAny == InitRatioAny /\ [][NextRatio]_vars

\* pobierz_raport_finansowy_espi from the page text to the returned record
InitPobierz ==
    /\ full_text \in Documents
    /\ raport = NoReport
    /\ pob_pc = "start"
    /\ CnIdle /\ RrIdle /\ ScanIdle /\ WskIdle /\ WidokIdle /\ TrimIdle /\ MonIdle

NextPobierz ==
    \/ Pobierz /\ UNCHANGED <<cn_vars, rr_vars, wsk_vars, widok, trim_vars, mon_vars>>
    \/ ScanLine(1) /\ UNCHANGED <<cn_vars, rr_vars, wsk_vars, pob_vars, widok, trim_vars, mon_vars>>
    \/ Return(1) /\ UNCHANGED <<cn_vars, rr_vars, wsk_vars, pob_vars, widok, trim_vars, mon_vars>>
    \/ Zwroc /\ UNCHANGED <<cn_vars, rr_vars, wsk_vars, widok, trim_vars, mon_vars>>

SpecPobierz == InitPobierz /\ [][NextPobierz]_vars

\* one invocation of ekstraktuj_dane_finansowe on a text drawn from T
InitTexts(T) ==
    /\ \E t \in T : text = [p \in Callers |-> IF p = 1 THEN t ELSE <<L_blank>>]
    /\ i = [p \in Callers |-> 0]
    /\ dane = [p \in Callers |-> fresh_dane(EmptyDane)]
    /\ pc = [p \in Callers |-> IF p = 1 THEN "scan" ELSE "idle"]
    /\ CnIdle /\ RrIdle /\ WskIdle /\ PobIdle /\ WidokIdle /\ TrimIdle /\ MonIdle

\* texts made of blocks, in which labels of one key recur
InitRepeat == InitTexts({Concat(bs) : bs \in SeqsUpTo(RepeatBlocks, MaxBlocks) \ {<<>>}})

SpecRepeat == InitRepeat /\ [][Next]_vars

\* texts with blank lines and a header-like label inside the window
InitWindow == InitTexts(SeqsUpTo(WindowPool, MaxScanLines) \ {<<>>})

SpecWindow == InitWindow /\ [][Next]_vars

\* a label followed by zero, placeholder and value lines
InitAccept == InitTexts({<<L_zysk_netto>> \o t : t \in SeqsUpTo(AcceptPool, MaxScanLines - 2)})

SpecAccept == InitAccept /\ [][Next]_vars

\* a label followed by header lines, labels and values
InitNoise == InitTexts({<<L_zysk_netto>> \o t : t \in SeqsUpTo(NoisePool, MaxScanLines - 2)})

SpecNoise == InitNoise /\ [][Next]_vars

\* a stripped content (the code trims a non-empty, stripped tresc)
InitTrim ==
    /\ \E ps \in SeqsUpTo(TrimPieces, MaxPieces) \ {<<>>} : tresc = strip(Concat(ps))
    /\ przyciete = NoTrim
    /\ trim_pc = "start"
    /\ CnIdle /\ RrIdle /\ ScanIdle /\ WskIdle /\ PobIdle /\ WidokIdle /\ MonIdle

NextTrim ==
    \E lista \in MarkerLists :
        Przytnij(lista) /\ UNCHANGED <<cn_vars, rr_vars, scan_vars, wsk_vars, pob_vars, widok, mon_vars>>

SpecTrim == InitTrim /\ [][NextTrim]_vars

\* ESPIMonitor(): self.previous_entries = set(), then run()
InitMonitor ==
    /\ previous_entries = {}
    /\ strona = None
    /\ returned = [e \in Entries |-> 0]
    /\ notified = [e \in Entries |-> 0]
    /\ polls = 0
    /\ mon_pc = "start"
    /\ CnIdle /\ RrIdle /\ ScanIdle /\ WskIdle /\ PobIdle /\ WidokIdle /\ TrimIdle

NextMonitor ==
    \/ \E st \in Polled : \E fail \in 0..NumEntries :
           RunFirst(st, fail) /\ UNCHANGED <<cn_vars, rr_vars, scan_vars, wsk_vars, pob_vars, widok, trim_vars>>
    \/ \E st \in Polled : \E fail \in 0..NumEntries :
           RunOnce(st, fail) /\ UNCHANGED <<cn_vars, rr_vars, scan_vars, wsk_vars, pob_vars, widok, trim_vars>>

SpecMonitor == InitMonitor /\ [][NextMonitor]_vars

\* the loop of run goes on while nothing stops it
SpecMonitorLive == SpecMonitor /\ WF_vars(NextMonitor)

\* texts made of blocks of a label and two values; the result goes to the
\* ratio calculator
InitChain == InitTexts({Concat(bs) : bs \in SeqsUpTo(ChainBlocks, MaxBlocks) \ {<<>>}})

NextChain ==
    \/ ScanLine(1) /\ UNCHANGED <<cn_vars, rr_vars, wsk_vars, pob_vars, widok, trim_vars, mon_vars>>
    \/ Return(1) /\ UNCHANGED <<cn_vars, rr_vars, wsk_vars, pob_vars, widok, trim_vars, mon_vars>>
    \/ WskaznikiZWyniku /\ UNCHANGED <<cn_vars, rr_vars, scan_vars, pob_vars, widok, trim_vars, mon_vars>>

SpecChain == InitChain /\ [][NextChain]_vars

\* one invocation of ekstraktuj_dane_finansowe whose result is handed to
\* wyswietl_dane_finansowe
NextWyswietl ==
    \/ ScanLine(1) /\ UNCHANGED <<cn_vars, rr_vars, wsk_vars, pob_vars, widok, trim_vars, mon_vars>>
    \/ Return(1) /\ UNCHANGED <<cn_vars, rr_vars, wsk_vars, pob_vars, widok, trim_vars, mon_vars>>
    \/ Wyswietl /\ UNCHANGED <<cn_vars, rr_vars, scan_vars, wsk_vars, pob_vars, trim_vars, mon_vars>>

SpecWyswietl == Init /\ [][NextWyswietl]_vars

(***************************************************************************)
(* Properties                                                              *)
(***************************************************************************)
Gt(x, k) == x.e = -1 \/ x.n > k * Pow10(x.e)

Lt(x, k) == x.e # -1 /\ x.n < k * Pow10(x.e)

\* index of the last "found" entry among the first m entries of a trace
LastFound(dbg, m) ==
    CHOOSE f \in 1..m : /\ dbg[f].typ = "Znaleziono pozycje"
                        /\ \A t \in (f + 1)..m : dbg[t].typ # "Znaleziono pozycje"

\* C1: whenever a matched label collects at least 2 values, the value stored
\* for the current period is the first accepted value and the value stored for
\* the prior period is the second (later accepted values are dropped); on the
\* synthetic block the result is current = {przychody_sprzedazy: 1000000,
\* zysk_netto: 150000}, prior = {przychody_sprzedazy: 800000, zysk_netto:
\* 120000} and zysk_netto changes by 25.0 percent with trend 'wzrost'.
C1_FirstTwoValues ==
    \A p \in Callers :
        LET dbg == dane[p].debug_info
        IN  /\ \A m \in 1..Len(dbg) :
                   dbg[m].typ = "ZAPISANO" =>
                       LET f == LastFound(dbg, m - 1)
                       IN  /\ \A t \in (f + 1)..(m - 1) :
                                   dbg[t].typ = "Znaleziona wartosc"
                           /\ m - 1 - f >= 2
                           /\ dbg[m].wartosci =
                                  <<dbg[f + 1].wartosci[1], dbg[f + 2].wartosci[1]>>
                           /\ m = Len(dbg) =>
                                  /\ dane[p].obecny_okres[dbg[m].key] =
                                         dbg[f + 1].wartosci[1]
                                  /\ dane[p].poprzedni_okres[dbg[m].key] =
                                         dbg[f + 2].wartosci[1]
            /\ (pc[p] = "done" /\ text[p] = ExampleText) =>
                   /\ DOMAIN dane[p].obecny_okres = {"przychody_sprzedazy", "zysk_netto"}
                   /\ DOMAIN dane[p].poprzedni_okres = {"przychody_sprzedazy", "zysk_netto"}
                   /\ dane[p].obecny_okres["przychody_sprzedazy"] = IntNum(1000000)
                   /\ dane[p].obecny_okres["zysk_netto"] = IntNum(150000)
                   /\ dane[p].poprzedni_okres["przychody_sprzedazy"] = IntNum(800000)
                   /\ dane[p].poprzedni_okres["zysk_netto"] = IntNum(120000)
                   /\ dane[p].analiza_rr["zysk_netto"].zmiana_procentowa = IntNum(25)
                   /\ dane[p].analiza_rr["zysk_netto"].trend = "wzrost"

\* the synthetic block has been scanned to the end; its first label collected
\* four values
C1_Witness ==
    /\ pc[1] = "done"
    /\ text[1] = ExampleText
    /\ Len(dane[1].debug_info) = 10
    /\ dane[1].debug_info[6].typ = "ZAPISANO"
    /\ dane[1].obecny_okres["przychody_sprzedazy"] = IntNum(1000000)

\* C2: in every state of a scan and in the result, every key of analiza_rr is
\* a key of obecny_okres and of poprzedni_okres.
C2_ComparisonKeysInBoth ==
    \A p \in Callers :
        /\ DOMAIN dane[p].analiza_rr \subseteq DOMAIN dane[p].obecny_okres
        /\ DOMAIN dane[p].analiza_rr \subseteq DOMAIN dane[p].poprzedni_okres

C2_Witness ==
    /\ pc[1] = "scan"
    /\ Cardinality(DOMAIN dane[1].analiza_rr) = 2
    /\ i[1] < Len(text[1])

\* C3: a line is handled as a metric label iff its trimmed text equals one of
\* the vocabulary labels; the iteration over any other line changes neither
\* the trace nor the current, prior or comparisons mappings.
C3_ExactLabelMatch ==
    [][\A p \in Callers :
           (pc[p] = "scan" /\ i'[p] = i[p] + 1) =>
               LET line == strip(text[p][i[p] + 1])
                   old == dane[p].debug_info
                   new == dane'[p].debug_info
               IN  IF line \in Labels
                   THEN /\ Len(new) > Len(old)
                        /\ new[Len(old) + 1].typ = "Znaleziono pozycje"
                        /\ new[Len(old) + 1].line = line
                   ELSE dane'[p] = dane[p]]_vars

NearMisses == {L_zysk_netto_colon, L_zysk_netto_lower, L_zysk}

\* a line that differs from a label by punctuation, case or truncation has
\* been passed while the mappings already held a metric
C3_Witness ==
    /\ pc[1] = "done"
    /\ Len(text[1]) = 4
    /\ text[1][4] \in NearMisses
    /\ text[1][1] = L_zysk_netto_padded
    /\ DOMAIN dane[1].obecny_okres = {"zysk_netto"}
    /\ Len(dane[1].debug_info) = 4

\* C4: with a zero prior value oblicz_zmiane_rr returns (0, 0, 'bez_zmian')
\* for a zero current value and (current, +infinity, 'nowy') for any other
\* current value; no call divides by zero.
C4_ZeroPrior ==
    rr_pc = "done" =>
        /\ zmiana.exc = "none"
        /\ para.poprzedni = Zero =>
               IF para.obecny = Zero
               THEN /\ zmiana.zmiana_bezwzgledna = Zero
                    /\ zmiana.zmiana_procentowa = Zero
                    /\ zmiana.trend = "bez_zmian"
               ELSE /\ zmiana.zmiana_bezwzgledna = para.obecny
                    /\ zmiana.zmiana_procentowa = Inf
                    /\ zmiana.trend = "nowy"

C4_Witness ==
    /\ rr_pc = "done"
    /\ para.poprzedni = Zero
    /\ para.obecny.n < 0
    /\ zmiana.trend = "nowy"

\* C5 as stated: for prior > 0 the trend is 'wzrost' iff the returned
\* (rounded) zmiana_procentowa is > 5, 'spadek' iff it is < -5, otherwise
\* 'stabilny'.
C5_TrendOnReturnedPercent ==
    (rr_pc = "done" /\ para.poprzedni.n > 0) =>
        /\ zmiana.trend = "wzrost" <=> Gt(zmiana.zmiana_procentowa, 5)
        /\ zmiana.trend = "spadek" <=> Lt(zmiana.zmiana_procentowa, -5)
        /\ zmiana.trend \in {"wzrost", "spadek", "stabilny"}

\* C5 amended: for prior > 0 the trend is 'wzrost' iff the percentage before
\* rounding, (current - prior) / |prior| * 100, is > 5, 'spadek' iff it is
\* < -5, otherwise 'stabilny'; the returned zmiana_procentowa is that
\* percentage rounded to 2 decimals, so it is >= 5 for 'wzrost', <= -5 for
\* 'spadek' and within [-5, 5] for 'stabilny'.
C5_TrendOnExactPercent ==
    (rr_pc = "done" /\ para.poprzedni.n > 0) =>
        LET E == MaxOf(para.obecny.e, para.poprzedni.e)
            c == Scaled(para.obecny, E)
            q == Scaled(para.poprzedni, E)
            zp == zmiana.zmiana_procentowa
        IN  /\ zmiana.trend = "wzrost" <=> 100 * (c - q) > 5 * q
            /\ zmiana.trend = "spadek" <=> 100 * (c - q) < -5 * q
            /\ zmiana.trend \in {"wzrost", "spadek", "stabilny"}
            /\ zp.e \in 0..2
            /\ Abs(Scaled(zp, 2) * q - 10000 * (c - q)) <= q \div 2
            /\ zmiana.trend = "wzrost" => ~Lt(zp, 5)
            /\ zmiana.trend = "spadek" => ~Gt(zp, -5)
            /\ zmiana.trend = "stabilny" => ~Gt(zp, 5) /\ ~Lt(zp, -5)

\* a growth record whose returned percentage is exactly 5.0
C5_Witness ==
    /\ rr_pc = "done"
    /\ para.poprzedni.n > 0
    /\ zmiana.trend = "wzrost"
    /\ zmiana.zmiana_procentowa = IntNum(5)

\* C6: a token of digit groups separated by whitespace yields the number
\* written by the concatenated groups; the same with a comma fraction, in
\* parentheses, yields the negated value with the comma as decimal separator.
C6_GroupedDigits ==
    (cn_pc = "done" /\ forma # NoForm) =>
        /\ wynik.exc = "none"
        /\ IF forma.nawias
           THEN wynik.val = Norm(-IntOf(Concat(forma.grupy) \o forma.ulamek),
                                 Len(forma.ulamek))
           ELSE wynik.val = IntNum(IntOf(Concat(forma.grupy)))

C6_Witness ==
    /\ cn_pc = "done"
    /\ token = <<"(", "1", " ", "2", "3", "4", ",", "5", ")">>
    /\ wynik.val = [n |-> -12345, e |-> 1]

IsDecimalLiteral(s) ==
    LET body == IF s # <<>> /\ s[1] = "-" THEN Tail(s) ELSE s
    IN  /\ \A k \in 1..Len(body) : IsDigit(body[k]) \/ body[k] = "."
        /\ \E k \in 1..Len(body) : IsDigit(body[k])
        /\ \A k, m \in 1..Len(body) : (body[k] = "." /\ body[m] = ".") => k = m

\* C7: clean_number returns a number for every string and never raises; it
\* returns 0.0 for an empty or whitespace-only token, for "-", for a token
\* without digits, and for a token of digits, periods and minus signs that is
\* not a decimal literal (several periods, several or misplaced minus signs).
C7_TotalAndZeroOnFailure ==
    cn_pc = "done" =>
        /\ wynik.exc = "none"
        /\ wynik.val.n \in Int /\ wynik.val.e \in Nat
        /\ strip(token) = <<>> => wynik.val = Zero
        /\ token = <<"-">> => wynik.val = Zero
        /\ (\A k \in 1..Len(token) : ~IsDigit(token[k])) => wynik.val = Zero
        /\ ((\A k \in 1..Len(token) : KeepDigitDotMinus(token[k]))
                /\ ~IsDecimalLiteral(token)) => wynik.val = Zero

\* a token with two periods has been normalised
C7_Witness ==
    /\ cn_pc = "done"
    /\ token = <<"1", ".", ".", "1">>
    /\ wynik = [exc |-> "none", val |-> Zero]

Mappings(d) ==
    [obecny_okres |-> d.obecny_okres, poprzedni_okres |-> d.poprzedni_okres,
     analiza_rr |-> d.analiza_rr]

\* C8: whatever the interleaving with other invocations and whatever was
\* invoked before, a returned invocation holds exactly the mappings that
\* ekstraktuj_dane_finansowe yields for its text when run alone; two
\* invocations on the same text return identical mappings.
C8_ResultDependsOnTextOnly ==
    /\ \A p \in Callers :
           pc[p] = "done" => Mappings(dane[p]) = Mappings(run_alone(text[p]))
    /\ \A p, q \in Callers :
           (pc[p] = "done" /\ pc[q] = "done" /\ text[p] = text[q]) =>
               Mappings(dane[p]) = Mappings(dane[q])

\* one invocation has returned while another, on a different text, is in the
\* middle of its scan with a metric already stored
C8_Witness ==
    /\ pc[1] = "done"
    /\ pc[2] = "scan"
    /\ i[2] = 1
    /\ text[1] # text[2]
    /\ DOMAIN dane[1].obecny_okres = {"zysk_netto"}
    /\ DOMAIN dane[2].obecny_okres = {"przychody_sprzedazy"}

NonPositiveOrAbsent(d, k) == k \notin DOMAIN d \/ (d[k].e # -1 /\ d[k].n <= 0)

\* C9: when the short-term-liabilities entry read by the calculator
\* (zobowiazania_krotkotermindowe of obecny_okres) is absent, zero or negative,
\* the output has no plynnosc_biezaca entry, no error entry and no infinite
\* value.
C9_NoLiquidityWithoutPositiveLiabilities ==
    (wsk_pc = "done"
        /\ NonPositiveOrAbsent(dane_finansowe.obecny_okres,
                               "zobowiazania_krotkotermindowe")) =>
        /\ "plynnosc_biezaca" \notin DOMAIN wskazniki
        /\ "error" \notin DOMAIN wskazniki
        /\ \A k \in DOMAIN wskazniki : wskazniki[k].val.e # -1

C9_Witness ==
    /\ wsk_pc = "done"
    /\ DOMAIN dane_finansowe.obecny_okres =
           {"aktywa_obrotowe", "zobowiazania_krotkotermindowe"}
    /\ dane_finansowe.obecny_okres["aktywa_obrotowe"] = IntNum(3)
    /\ dane_finansowe.obecny_okres["zobowiazania_krotkotermindowe"] = IntNum(-2)
    /\ "plynnosc_biezaca" \notin DOMAIN wskazniki

Has(d, k) == k \in DOMAIN d

Pos(d, k) == k \in DOMAIN d /\ Gt(d[k], 0)

NonZero(d, k) == k \in DOMAIN d /\ d[k] # Zero

\* what each ratio needs: metric keys that must be present, and entries used
\* as denominators
Requirement(name, o, q, denom(_, _)) ==
    CASE name = "rentownosc_netto" ->
             Has(o, "zysk_netto") /\ denom(o, "przychody_sprzedazy")
      [] name = "rentownosc_operacyjna" ->
             Has(o, "zysk_operacyjny") /\ denom(o, "przychody_sprzedazy")
      [] name = "marza_brutto" ->
             Has(o, "zysk_brutto_sprzedazy") /\ denom(o, "przychody_sprzedazy")
      [] name = "plynnosc_biezaca" ->
             Has(o, "aktywa_obrotowe") /\ denom(o, "zobowiazania_krotkotermindowe")
      [] name = "wskaznik_zadluzenia" ->
             Has(o, "zobowiazania_razem") /\ denom(o, "aktywa_razem")
      [] name = "roe" -> Has(o, "zysk_netto") /\ denom(o, "kapital_wlasny")
      [] name = "roa" -> Has(o, "zysk_netto") /\ denom(o, "aktywa_razem")
      [] name = "wzrost_aktywow" ->
             Has(o, "aktywa_razem") /\ denom(q, "aktywa_razem")
      [] name = "wzrost_kapitalu_wlasnego" ->
             Has(o, "kapital_wlasny") /\ denom(q, "kapital_wlasny")
      [] name = "zmiana_marzy_netto" ->
             /\ Has(o, "zysk_netto") /\ denom(o, "przychody_sprzedazy")
             /\ Has(q, "zysk_netto") /\ denom(q, "przychody_sprzedazy")
      [] OTHER -> FALSE

GrowthByAbs(name, o, q, denom(_, _)) ==
    CASE name = "wzrost_przychodow" ->
             Has(o, "przychody_sprzedazy") /\ denom(q, "przychody_sprzedazy")
      [] name = "wzrost_zysku_netto" ->
             Has(o, "zysk_netto") /\ denom(q, "zysk_netto")
      [] name = "wzrost_zysku_operacyjnego" ->
             Has(o, "zysk_operacyjny") /\ denom(q, "zysk_operacyjny")
      [] OTHER -> FALSE

GrowthByAbsNames ==
    {"wzrost_przychodow", "wzrost_zysku_netto", "wzrost_zysku_operacyjnego"}

\* C10 as stated: a ratio is output only if all its metric keys are present
\* and every value used as a denominator, the prior-period value of a growth
\* rate included, is strictly positive.
C10_AllDenominatorsPositive ==
    wsk_pc = "done" =>
        \A name \in DOMAIN wskazniki :
            LET o == dane_finansowe.obecny_okres
                q == dane_finansowe.poprzedni_okres
            IN  IF name \in GrowthByAbsNames
                THEN GrowthByAbs(name, o, q, Pos)
                ELSE Requirement(name, o, q, Pos)

\* C10 amended: a ratio is output only if all its metric keys are present and
\* every value used as a denominator is strictly positive, except that the
\* growth rates of revenue, net profit and operating profit divide by the
\* absolute value of the prior-period value and are output whenever that
\* value is non-zero, negative values included.
C10_DenominatorsPositiveOrAbsNonZero ==
    wsk_pc = "done" =>
        \A name \in DOMAIN wskazniki :
            LET o == dane_finansowe.obecny_okres
                q == dane_finansowe.poprzedni_okres
            IN  IF name \in GrowthByAbsNames
                THEN GrowthByAbs(name, o, q, NonZero)
                ELSE Requirement(name, o, q, Pos)

\* revenue growth has been output against a negative prior-period revenue
C10_Witness ==
    /\ wsk_pc = "done"
    /\ "wzrost_przychodow" \in DOMAIN wskazniki
    /\ "przychody_sprzedazy" \in DOMAIN dane_finansowe.poprzedni_okres
    /\ dane_finansowe.poprzedni_okres["przychody_sprzedazy"] = IntNum(-2)
    /\ "zmiana_marzy_netto" \notin DOMAIN wskazniki

\* the result of the same call with the prior-period entry replaced by an
\* empty mapping: the ratios computed before the first read of that entry
PrzedBledem(df) ==
    ekstraktuj_wskazniki_finansowe(
        [obecny_okres |-> df.obecny_okres, poprzedni_okres |-> EmptyDict])

\* C11: the ratio calculator returns a mapping on every input; when a period
\* entry is not a mapping the computation fails at its first read, and the
\* result then is exactly the ratios computed before that point, with the
\* values they had, plus one 'error' entry; without a failure there is no
\* 'error' entry.
C11_ErrorEntryKeepsPartialResults ==
    wsk_pc = "done" =>
        LET o == dane_finansowe.obecny_okres
            q == dane_finansowe.poprzedni_okres
        IN  /\ o = NieSlownik => DOMAIN wskazniki = {"error"}
            /\ (o # NieSlownik /\ q = NieSlownik) =>
                   /\ DOMAIN wskazniki = DOMAIN PrzedBledem(dane_finansowe) \cup {"error"}
                   /\ \A name \in DOMAIN PrzedBledem(dane_finansowe) :
                          wskazniki[name] = PrzedBledem(dane_finansowe)[name]
            /\ (o # NieSlownik /\ q # NieSlownik) => "error" \notin DOMAIN wskazniki

\* net margin 3 / 3 was computed, then the prior-period entry None failed
C11_Witness ==
    /\ wsk_pc = "done"
    /\ dane_finansowe.poprzedni_okres = NieSlownik
    /\ DOMAIN wskazniki = {"rentownosc_netto", "error"}
    /\ wskazniki["rentownosc_netto"] = Fmt(IntNum(100), ".2f%")

\* the trace entries a step of invocation 1 appends
NoweWpisy ==
    SubSeq(dane'[1].debug_info, Len(dane[1].debug_info) + 1,
           Len(dane'[1].debug_info))

\* the number of entries of the given type in a trace
IleWpisow(dbg, typ) == Cardinality({m \in 1..Len(dbg) : dbg[m].typ = typ})

\* invocation 1 is about to handle a line that equals a label
NaEtykiecie ==
    /\ pc[1] = "scan"
    /\ i[1] < Len(text[1])
    /\ strip(text[1][i[1] + 1]) \in Labels

\* C12: when the line handled is a label and its look-ahead accepts fewer
\* than two values (the trace gains fewer than two 'value found' entries),
\* the current, prior and comparison mappings stay as they were, the trace
\* gains one 'found' entry, the value entries and exactly one final 'skipped'
\* entry, no error is raised and the scan goes on with the next line.
C12_SkippedMatchStoresNothing ==
    [][(NaEtykiecie /\ IleWpisow(NoweWpisy, "Znaleziona wartosc") < 2) =>
          /\ dane'[1].obecny_okres = dane[1].obecny_okres
          /\ dane'[1].poprzedni_okres = dane[1].poprzedni_okres
          /\ dane'[1].analiza_rr = dane[1].analiza_rr
          /\ SubSeq(dane'[1].debug_info, 1, Len(dane[1].debug_info))
                 = dane[1].debug_info
          /\ NoweWpisy # <<>>
          /\ NoweWpisy[1].typ = "Znaleziono pozycje"
          /\ NoweWpisy[Len(NoweWpisy)].typ = "POMINIETO"
          /\ IleWpisow(NoweWpisy, "POMINIETO") = 1
          /\ IleWpisow(NoweWpisy, "ZAPISANO") = 0
          /\ Len(NoweWpisy) = 2 + IleWpisow(NoweWpisy, "Znaleziona wartosc")
          /\ pc'[1] = "scan"
          /\ i'[1] = i[1] + 1]_vars

\* a label followed by a single value was skipped, the scan went on to the
\* end of the text and nothing was stored
C12_Witness ==
    /\ pc[1] = "done"
    /\ Len(text[1]) >= 3
    /\ IleWpisow(dane[1].debug_info, "POMINIETO") >= 1
    /\ IleWpisow(dane[1].debug_info, "Znaleziona wartosc") = 1
    /\ dane[1].obecny_okres = EmptyDict
    /\ dane[1].poprzedni_okres = EmptyDict
    /\ dane[1].analiza_rr = EmptyDict

\* the number of occurrences s.split(sep) finds
Wystapienia(s, sep) == Len(split(s, sep, -1)) - 1

\* the start marker occurs fewer than twice or the closing marker is absent
BrakZnacznikow(ft) ==
    Wystapienia(ft, START_MARKER) < 2 \/ Wystapienia(ft, KOREKTA_MARKER) = 0

\* C13: when the page text lacks the delimiting markers, the call raises no
\* exception and the extraction result it returns has empty current, prior
\* and comparison mappings.
C13_MissingMarkersGiveEmptyResult ==
    BrakZnacznikow(full_text) =>
        /\ pob_pc # "raised"
        /\ pob_pc = "done" =>
               /\ raport.dane_finansowe.obecny_okres = EmptyDict
               /\ raport.dane_finansowe.poprzedni_okres = EmptyDict
               /\ raport.dane_finansowe.analiza_rr = EmptyDict

\* C14: the presenter applied to a result of the extraction returns a text
\* and raises no error.
C14_PresenterAcceptsExtractionResult ==
    widok # NoView => widok.exc = "none"

\* the key of the label on line m (1-based) of lines, "" when the line is no label
KeyAt(lines, m) ==
    IF lookup(strip(lines[m])) = 0 THEN ""
    ELSE financial_items_map[lookup(strip(lines[m]))].key

\* the values the look-ahead after line m (1-based) collects
ValuesAfter(lines, m) ==
    lookahead(lines, m, MinOf(m + 4, Len(lines)),
              [values |-> <<>>, debug |-> <<>>, exc |-> "none"]).values

\* line m is a label of key k that collects at least 2 values
Records(lines, m, k) ==
    k # "" /\ KeyAt(lines, m) = k /\ Len(ValuesAfter(lines, m)) >= 2

\* C15: (as stated) when two label lines of a text map to the same key and
\* both collect at least 2 values, the current and prior values in the result
\* are those of the earlier line.
C15_FirstMatchWins ==
    pc[1] = "done" =>
        \A a \in 1..Len(text[1]) : \A b \in (a + 1)..Len(text[1]) :
            LET k == KeyAt(text[1], a)
            IN  (/\ Records(text[1], a, k)
                 /\ Records(text[1], b, k)
                 /\ \A c \in 1..(a - 1) : ~Records(text[1], c, k)) =>
                    /\ dane[1].obecny_okres[k] = ValuesAfter(text[1], a)[1]
                    /\ dane[1].poprzedni_okres[k] = ValuesAfter(text[1], a)[2]

\* C15 (amended): when two label lines of a text map to the same key (the
\* same label twice, or two aliases) and both collect at least 2 values, the
\* current and prior values in the result are those of the later line: the
\* last match wins.
C15_LastMatchWins ==
    pc[1] = "done" =>
        \A a \in 1..Len(text[1]) : \A b \in (a + 1)..Len(text[1]) :
            LET k == KeyAt(text[1], a)
            IN  (/\ Records(text[1], a, k)
                 /\ Records(text[1], b, k)
                 /\ \A c \in (b + 1)..Len(text[1]) : ~Records(text[1], c, k)) =>
                    /\ dane[1].obecny_okres[k] = ValuesAfter(text[1], b)[1]
                    /\ dane[1].poprzedni_okres[k] = ValuesAfter(text[1], b)[2]

\* a label and then its alias have both been recorded, with different values
C15_Witness ==
    /\ pc[1] = "done"
    /\ text[1] = <<L_zysk_netto, L_5, L_12_5, L_zysk_strata_netto, L_12_5, L_5>>
    /\ i[1] = 6
    /\ dane[1].obecny_okres["zysk_netto"] = Norm(125, 1)
    /\ dane[1].poprzedni_okres["zysk_netto"] = IntNum(5)

\* positions of the trace entries of type typ about key k
Wpisy(dbg, typ, k) == {m \in 1..Len(dbg) : dbg[m].typ = typ /\ dbg[m].key = k}

\* C16: when a label appears twice in a text and both occurrences collect at
\* least 2 values, the current, prior and comparison entries of its key are
\* those of the later occurrence, and the trace holds the found and saved
\* entries of both occurrences in input order.
C16_LaterOccurrenceOverwrites ==
    pc[1] = "done" =>
        \A a \in 1..Len(text[1]) : \A b \in (a + 1)..Len(text[1]) :
            LET k == KeyAt(text[1], a)
                va == ValuesAfter(text[1], a)
                vb == ValuesAfter(text[1], b)
                dbg == dane[1].debug_info
                rr == oblicz_zmiane_rr(vb[1], vb[2])
            IN  (/\ strip(text[1][a]) = strip(text[1][b])
                 /\ Records(text[1], a, k)
                 /\ Records(text[1], b, k)
                 /\ \A c \in 1..Len(text[1]) :
                        Records(text[1], c, k) => c \in {a, b}) =>
                    /\ dane[1].obecny_okres[k] = vb[1]
                    /\ dane[1].poprzedni_okres[k] = vb[2]
                    /\ dane[1].analiza_rr[k].zmiana_bezwzgledna = rr.zmiana_bezwzgledna
                    /\ dane[1].analiza_rr[k].zmiana_procentowa = rr.zmiana_procentowa
                    /\ dane[1].analiza_rr[k].trend = rr.trend
                    /\ \E f1, s1, f2, s2 \in 1..Len(dbg) :
                           /\ f1 < s1 /\ s1 < f2 /\ f2 < s2
                           /\ dbg[f1].typ = "Znaleziono pozycje" /\ dbg[f1].key = k
                           /\ dbg[f2].typ = "Znaleziono pozycje" /\ dbg[f2].key = k
                           /\ dbg[f1].line = strip(text[1][a])
                           /\ dbg[f2].line = strip(text[1][b])
                           /\ dbg[s1].typ = "ZAPISANO" /\ dbg[s1].key = k
                           /\ dbg[s1].wartosci = <<va[1], va[2]>>
                           /\ dbg[s2].typ = "ZAPISANO" /\ dbg[s2].key = k
                           /\ dbg[s2].wartosci = <<vb[1], vb[2]>>
                           /\ Wpisy(dbg, "ZAPISANO", k) = {s1, s2}

\* the same label has been recorded twice, with different values
C16_Witness ==
    /\ pc[1] = "done"
    /\ text[1] = <<L_zysk_netto, L_5, L_12_5, L_zysk_netto, L_12_5, L_5>>
    /\ dane[1].analiza_rr["zysk_netto"].trend = "wzrost"
    /\ Cardinality(Wpisy(dane[1].debug_info, "ZAPISANO", "zysk_netto")) = 2

\* the values a step of invocation 1 accepts, from the trace entries it appends
NoweWartosci ==
    [m \in 1..Len(SelectSeq(NoweWpisy, LAMBDA e : e.typ = "Znaleziona wartosc")) |->
        SelectSeq(NoweWpisy, LAMBDA e : e.typ = "Znaleziona wartosc")[m].wartosci[1]]

\* the last line (1-based) of the window of a label on line m
KoniecOkna(lines, m) == MinOf(m + 4, Len(lines))

\* C17: when the line handled is a label at line m and a line j of its
\* look-ahead window equals a label of the vocabulary, whichever label it is,
\* neither line j nor a line after j is accepted: the values accepted are
\* those the look-ahead accepts on the text cut off before line j.
C17_LookaheadStopsAtAnyLabel ==
    [][NaEtykiecie =>
          \A j \in (i[1] + 2)..KoniecOkna(text[1], i[1] + 1) :
              strip(text[1][j]) \in Labels =>
                  NoweWartosci = ValuesAfter(SubSeq(text[1], 1, j - 1), i[1] + 1)]_vars

\* line j (1-based) is accepted as a value by the look-ahead of the label on
\* line m: cutting the text off after line j instead of before it adds a value
AcceptedBy(lines, m, j) ==
    /\ m < j /\ j <= KoniecOkna(lines, m)
    /\ Len(ValuesAfter(SubSeq(lines, 1, j), m)) >
           Len(ValuesAfter(SubSeq(lines, 1, j - 1), m))

\* C18: after a match at line i the scan resumes at line i + 1, the values of
\* the match are those of its window, and no line is accepted as a value by
\* the look-aheads of two different matched label lines.
C18_NoLineCountedTwice ==
    [][NaEtykiecie =>
          /\ i'[1] = i[1] + 1
          /\ NoweWartosci = ValuesAfter(text[1], i[1] + 1)
          /\ \A a \in 1..i[1] : \A j \in 1..Len(text[1]) :
                 ~(/\ KeyAt(text[1], a) # ""
                   /\ AcceptedBy(text[1], a, j)
                   /\ AcceptedBy(text[1], i[1] + 1, j))]_vars

\* the line handled is a label followed by b blank lines and two lines "5"
PoPustych(b) ==
    /\ NaEtykiecie
    /\ i[1] + 1 + b + 2 <= Len(text[1])
    /\ \A m \in (i[1] + 2)..(i[1] + 1 + b) : strip(text[1][m]) = <<>>
    /\ text[1][i[1] + 1 + b + 1] = L_5
    /\ text[1][i[1] + 1 + b + 2] = L_5

\* the step stores 5 as the current and as the prior value of the label handled
Zapisuje5 ==
    /\ KeyAt(text[1], i[1] + 1) \in DOMAIN dane'[1].obecny_okres
    /\ dane'[1].obecny_okres[KeyAt(text[1], i[1] + 1)] = IntNum(5)
    /\ dane'[1].poprzedni_okres[KeyAt(text[1], i[1] + 1)] = IntNum(5)
    /\ NoweWpisy[Len(NoweWpisy)].typ = "ZAPISANO"

\* C19: (as stated) blank lines between a label and its values do not use up
\* the window: a label followed by any number of blank lines and then two
\* numeric lines gets its current and prior values.
C19_BlankLinesDoNotUseWindow ==
    [][\A b \in 0..MaxScanLines : PoPustych(b) => Zapisuje5]_vars

\* C19 (amended): the window is the up to 4 lines after the label, blank
\* ones included: a label followed by at most 2 blank lines and then two
\* numeric lines gets its current and prior values; followed by 3 or more
\* blank lines and then two numeric lines it stores nothing and is skipped.
C19_BlankLinesUseWindow ==
    [][\A b \in 0..MaxScanLines :
           PoPustych(b) =>
               IF b <= 2 THEN Zapisuje5
               ELSE /\ dane'[1].obecny_okres = dane[1].obecny_okres
                    /\ dane'[1].poprzedni_okres = dane[1].poprzedni_okres
                    /\ dane'[1].analiza_rr = dane[1].analiza_rr
                    /\ NoweWpisy[Len(NoweWpisy)].typ = "POMINIETO"
                    /\ Len(NoweWartosci) = (IF b = 3 THEN 1 ELSE 0)]_vars

\* a label was followed by two blank lines and two values and a label by
\* three blank lines and two values: the first was stored, the second skipped
C19_Witness ==
    /\ pc[1] = "done"
    /\ \/ /\ text[1] = <<L_zysk_netto, L_blank, L_blank, L_5, L_5>>
          /\ DOMAIN dane[1].obecny_okres = {"zysk_netto"}
       \/ /\ text[1] = <<L_zysk_netto, L_blank, L_blank, L_blank, L_5, L_5>>
          /\ DOMAIN dane[1].obecny_okres = {}
          /\ IleWpisow(dane[1].debug_info, "POMINIETO") = 1

\* the tokens "0", "-" and "(0)"
Placeholders == {L_0, L_minus, L_0_paren}

\* a window line that is neither blank nor a header line and whose normalized
\* value is non-zero or whose trimmed text is a placeholder token
Qualifies(l) ==
    /\ strip(l) # <<>>
    /\ ~is_header(strip(l))
    /\ \/ clean_number(strip(l)).val.n # 0
       \/ strip(l) \in Placeholders

\* the lines (1-based m + 1 .. end of window) after the label on line m
Okno(lines, m) == SubSeq(lines, m + 1, KoniecOkna(lines, m))

\* C20: in a window without a label, a line that is neither blank nor noise
\* is accepted as a value iff its normalized value is non-zero or its trimmed
\* text is "0", "-" or "(0)"; a line accepted as a placeholder contributes the
\* value 0; a line that normalizes to 0 without being a placeholder is ignored
\* and the lines after it are still examined.
C20_AcceptanceRule ==
    [][(NaEtykiecie /\ \A m \in 1..Len(Okno(text[1], i[1] + 1)) :
                           strip(Okno(text[1], i[1] + 1)[m]) \notin Labels) =>
          /\ NoweWartosci =
                 [m \in 1..Len(SelectSeq(Okno(text[1], i[1] + 1), Qualifies)) |->
                     clean_number(strip(SelectSeq(Okno(text[1], i[1] + 1),
                                                  Qualifies)[m])).val]
          /\ \A m \in 1..Len(NoweWpisy) :
                 (/\ NoweWpisy[m].typ = "Znaleziona wartosc"
                  /\ NoweWpisy[m].line \in Placeholders) =>
                     NoweWpisy[m].wartosci = <<Zero>>]_vars

\* "0,00" and a text line were passed over, "-" and "5" were accepted after
\* them and stored
C20_Witness ==
    /\ pc[1] = "done"
    /\ text[1] = <<L_zysk_netto, L_0_00, L_minus, L_zysk, L_5>>
    /\ dane[1].obecny_okres["zysk_netto"] = Zero
    /\ dane[1].poprzedni_okres["zysk_netto"] = IntNum(5)
    /\ IleWpisow(dane[1].debug_info, "Znaleziona wartosc") = 2

\* the line contains, in any case, a word of the noise vocabulary
Noise(l) ==
    \E h \in 1..Len(headers) :
        \E k \in 0..(Len(l) - Len(headers[h])) :
            \A c \in 1..Len(headers[h]) : lower_char(l[k + c]) = headers[h][c]

\* the text with every noise line made blank
BezNaglowkow(lines) ==
    [k \in 1..Len(lines) |-> IF Noise(lines[k]) THEN <<>> ELSE lines[k]]

Core(t) ==
    IF startswith(strip(t), "(") /\ endswith(strip(t), ")")
    THEN <<"-">> \o SubSeq(strip(t), 2, Len(strip(t)) - 1)
    ELSE strip(t)

\* the maximal runs of s over {digit, whitespace, comma, period, minus}, as
\* pairs of their first and last position
RunsOf(s) ==
    {ab \in (1..Len(s)) \X (1..Len(s)) :
        /\ ab[1] <= ab[2]
        /\ \A k \in ab[1]..ab[2] : IsNumChar(s[k])
        /\ ab[1] = 1 \/ ~IsNumChar(s[ab[1] - 1])
        /\ ab[2] = Len(s) \/ ~IsNumChar(s[ab[2] + 1])}

FirstRunOf(s) ==
    LET ab == CHOOSE ab \in RunsOf(s) : \A cd \in RunsOf(s) : ab[1] <= cd[1]
    IN  SubSeq(s, ab[1], ab[2])

\* the longest run, the first one among several of that length
LongestRunOf(s) ==
    LET ab == CHOOSE ab \in RunsOf(s) :
                  \A cd \in RunsOf(s) :
                      \/ ab[2] - ab[1] > cd[2] - cd[1]
                      \/ ab[2] - ab[1] = cd[2] - cd[1] /\ ab[1] <= cd[1]
    IN  SubSeq(s, ab[1], ab[2])

ObecneZero(k) == Has(dane_finansowe.obecny_okres, k) /\ dane_finansowe.obecny_okres[k] = Zero

\* ratio name is output as zero in format fmt
WynikZero(name, fmt) == Has(wskazniki, name) /\ wskazniki[name] = Fmt(Zero, fmt)

\* C23: a metric present with value 0 is not treated as absent: with
\* zysk_netto = 0 and positive przychody_sprzedazy the output has
\* rentownosc_netto 0.00%, and every ratio whose numerator is present with
\* value 0 and whose denominator is positive is output.
C23_ZeroIsNotAbsent ==
    wsk_pc = "done" =>
        /\ (ObecneZero("zysk_netto") /\ Pos(dane_finansowe.obecny_okres, "przychody_sprzedazy"))
               => WynikZero("rentownosc_netto", ".2f%")
        /\ (ObecneZero("zysk_operacyjny") /\ Pos(dane_finansowe.obecny_okres, "przychody_sprzedazy"))
               => WynikZero("rentownosc_operacyjna", ".2f%")
        /\ (ObecneZero("zobowiazania_razem") /\ Pos(dane_finansowe.obecny_okres, "aktywa_razem"))
               => WynikZero("wskaznik_zadluzenia", ".2f%")
        /\ (ObecneZero("zysk_netto") /\ Pos(dane_finansowe.obecny_okres, "kapital_wlasny"))
               => WynikZero("roe", ".2f%")
        /\ (ObecneZero("zysk_netto") /\ Pos(dane_finansowe.obecny_okres, "aktywa_razem"))
               => WynikZero("roa", ".2f%")

\* the lines of the found entries of a trace, in trace order
FoundLines(dbg) ==
    [m \in 1..Len(SelectSeq(dbg, LAMBDA e : e.typ = "Znaleziono pozycje")) |->
        SelectSeq(dbg, LAMBDA e : e.typ = "Znaleziono pozycje")[m].line]

\* the trimmed label lines among the first n lines of a text, in text order
LabelLines(lines, n) ==
    SelectSeq([m \in 1..n |-> strip(lines[m])], LAMBDA l : l \in Labels)

\* C24: the trace is append-only and ordered: a step keeps the entries there
\* are; a step on a label line appends one found entry, one entry per value
\* accepted, in acceptance order, and exactly one final saved or skipped
\* entry; any other step appends nothing; the found entries follow the order
\* of the labels in the text; and the mappings a step produces do not depend
\* on the trace.
C24_TraceAppendOnly ==
    [][(pc[1] = "scan" /\ i[1] < Len(text[1])) =>
          LET nowe == NoweWpisy
              vals == ValuesAfter(text[1], i[1] + 1)
          IN  /\ SubSeq(dane'[1].debug_info, 1, Len(dane[1].debug_info))
                     = dane[1].debug_info
              /\ IF NaEtykiecie
                 THEN /\ Len(nowe) = 2 + Len(vals)
                      /\ nowe[1].typ = "Znaleziono pozycje"
                      /\ nowe[1].line = strip(text[1][i[1] + 1])
                      /\ \A m \in 2..(Len(nowe) - 1) :
                             /\ nowe[m].typ = "Znaleziona wartosc"
                             /\ nowe[m].wartosci = <<vals[m - 1]>>
                      /\ nowe[Len(nowe)].typ \in {"ZAPISANO", "POMINIETO"}
                      /\ nowe[Len(nowe)].key = KeyAt(text[1], i[1] + 1)
                 ELSE nowe = <<>>
              /\ FoundLines(dane'[1].debug_info) = LabelLines(text[1], i'[1])
              /\ Mappings(dane'[1])
                     = Mappings(scan_line(text[1], i[1],
                                          [dane[1] EXCEPT !.debug_info = <<>>]).dane)]_vars

\* two labels have been handled, the first saved and the second skipped
C24_Witness ==
    /\ pc[1] = "done"
    /\ text[1] = <<L_zysk_netto, L_5, L_5, L_przychody>>
    /\ Len(dane[1].debug_info) = 6
    /\ dane[1].debug_info[4].typ = "ZAPISANO"
    /\ dane[1].debug_info[6].typ = "POMINIETO"

\* position of the earliest occurrence in t of any marker of the list, 0
\* when none occurs
Najwczesniej(t, markers) ==
    IF \A m \in 1..Len(markers) : find(t, markers[m]) = 0 THEN 0
    ELSE CHOOSE k \in 1..Len(t) :
             /\ \E m \in 1..Len(markers) : find(t, markers[m]) = k
             /\ \A m \in 1..Len(markers) : find(t, markers[m]) \in {0} \cup (k..Len(t))

\* C25: content trimmed at closing markers ends at the first occurrence in
\* the text of any marker of the list, so what is kept contains no closing
\* marker of the list.
C25_TrimmedAtFirstOccurrence ==
    trim_pc = "done" =>
        LET markers == MarkersOf(przyciete.lista)
            k == Najwczesniej(tresc, markers)
        IN  /\ przyciete.wynik = IF k = 0 THEN tresc ELSE strip(SubSeq(tresc, 1, k - 1))
            /\ \A m \in 1..Len(markers) : find(przyciete.wynik, markers[m]) = 0

\* C26: every ratio is reachable from an extraction result: a result with
\* aktywa_obrotowe and positive short-term liabilities yields
\* plynnosc_biezaca, one with the gross profit and positive revenue yields
\* marza_brutto.
C26_RatiosReachableFromExtraction ==
    wsk_pc = "done" =>
        /\ (/\ Has(dane[1].obecny_okres, "aktywa_obrotowe")
            /\ Pos(dane[1].obecny_okres, "zobowiazania_krotkoterminowe"))
               => Has(wskazniki, "plynnosc_biezaca")
        /\ (/\ Has(dane[1].obecny_okres, "zysk_brutto")
            /\ Pos(dane[1].obecny_okres, "przychody_sprzedazy"))
               => Has(wskazniki, "marza_brutto")

\* the comparison record that is stored for the values obecny and poprzedni
Porownanie(obecny, poprzedni) ==
    [zmiana_bezwzgledna |-> oblicz_zmiane_rr(obecny, poprzedni).zmiana_bezwzgledna,
     zmiana_procentowa |-> oblicz_zmiane_rr(obecny, poprzedni).zmiana_procentowa,
     trend |-> oblicz_zmiane_rr(obecny, poprzedni).trend]

C28_NotifiedAtMostOnce ==
    \A e \in Entries : returned[e] <= 1 /\ notified[e] <= 1

\* C29: an iteration of run_once whose fetch fails or whose page has no
\* entries changes neither previous_entries nor the notifications and stays
\* in the loop; the next poll returns only entries outside previous_entries.
C29_EmptyPollKeepsMemory ==
    [][(mon_pc = "loop" /\ polls' = polls + 1) =>
           /\ (strona' = None \/ strona' = Some(<<>>)) =>
                  /\ UNCHANGED <<previous_entries, returned, notified>>
                  /\ mon_pc' = "loop"
           /\ \A e \in Entries : returned'[e] > returned[e] => e \notin previous_entries]_vars

\* a poll whose page had no entries has run while entries were remembered
C29_Witness ==
    /\ mon_pc = "loop"
    /\ polls >= 1
    /\ strona = Some(<<>>)
    /\ previous_entries # {}

\* C30: a failure while notifying a match neither stops monitoring nor
\* loses matches: run never leaves its loop, and every match returned by
\* process_entries is eventually notified.
C30_NotifyFailureIsSurvived ==
    /\ [](mon_pc # "stopped")
    /\ \A e \in Entries : (returned[e] > notified[e]) ~> (notified[e] >= returned[e])

====
